---- MODULE Spec2Model ----
(***************************************************************************)
(* A model of the pokedex terminal application: the cached fetch gateway   *)
(* (api/client.rs), the event channel (event.rs), the background loaders   *)
(* and the application state machine (app.rs).                             *)
(*                                                                         *)
(* Rust values are modelled as follows.  Option<T>: None is <<>> and       *)
(* Some(x) is <<x>>.  String: a sequence of one-character strings.         *)
(* Vec<T>: a sequence.  A struct: a record with the struct's field names.  *)
(* A method taking &mut self is an operator from the world before the call *)
(* to the world after it, where the world is the App struct together with  *)
(* the tasks it spawned and the roster file it wrote.                      *)
(***************************************************************************)
EXTENDS Integers, Sequences, FiniteSets, TLC

VARIABLES
    app,      \* the App struct (app.rs:81-120)
    tasks,    \* the running background loader tasks, in spawn order
    chan,     \* the unbounded mpsc channel of AppEvent (event.rs:31)
    saved,    \* the roster file teams.json on disk (team.rs:51-59)
    mainpc,   \* position of main(): "init" before start_loading_list, then "run"
    nkeys,    \* the number of key events the input thread has sent
    lastev,   \* the sprite event the loop has just handled, None after any other
    locals,   \* the local variables of a loader run followed fetch by fetch
    fetches,  \* the fetches that run has started, in order, with their outcome
    cache,    \* the cache directory: cache key -> Option<body>
    calls,    \* the gateway calls in flight or finished, one per caller
    netlog    \* URLs for which a network request was made, in order

vars ==
    <<app, tasks, chan, saved, mainpc, nkeys, lastev, cache, calls, netlog,
      locals, fetches>>

appvars == <<app, tasks, chan, saved, mainpc, nkeys, lastev>>
gwvars == <<cache, calls, netlog>>
ldvars == <<locals, fetches>>

----------------------------------------------------------------------------
(* Option<T> *)

None == <<>>
Some(x) == <<x>>
IsSome(o) == o # <<>>
Unwrap(o) == o[1]

(* usize::saturating_sub *)
saturating_sub(a, b) == IF a > b THEN a - b ELSE 0

(* Iterator::take *)
Take(s, n) == SubSeq(s, 1, IF Len(s) < n THEN Len(s) ELSE n)

(* Iterator::position: Some(zero-based index of the first match) *)
Position(s, Test(_)) ==
    LET hits == {i \in 1..Len(s) : Test(s[i])}
    IN  IF hits = {} THEN None
        ELSE Some((CHOOSE i \in hits : \A j \in hits : i <= j) - 1)

(* Vec::retain / Iterator::filter, order kept *)
Retain(s, Test(_)) == SelectSeq(s, Test)

(* slice::get with a zero-based index *)
Get(s, i) == IF i >= 0 /\ i < Len(s) THEN Some(s[i + 1]) ELSE None

(* Vec::pop on a String: the last character removed, nothing on empty *)
Pop(s) == IF s = <<>> THEN s ELSE SubSeq(s, 1, Len(s) - 1)

(* Vec::remove with a zero-based index *)
Remove(s, i) == SubSeq(s, 1, i) \o SubSeq(s, i + 2, Len(s))

----------------------------------------------------------------------------
(* Strings *)

(* str::contains: q occurs in s as a contiguous substring *)
Contains(s, q) ==
    \E i \in 0..(Len(s) - Len(q)) : SubSeq(s, i + 1, i + Len(q)) = q

(* char::to_lowercase over the letters the model types *)
LowerChar(c) ==
    CASE c = "A" -> "a"
      [] c = "B" -> "b"
      [] c = "G" -> "g"
      [] OTHER -> c

to_lowercase(s) == [i \in 1..Len(s) |-> LowerChar(s[i])]

(* One decimal digit as a character *)
DigitChar(d) ==
    CASE d = 0 -> "0" [] d = 1 -> "1" [] d = 2 -> "2" [] d = 3 -> "3"
      [] d = 4 -> "4" [] d = 5 -> "5" [] d = 6 -> "6" [] d = 7 -> "7"
      [] d = 8 -> "8" [] d = 9 -> "9"

(* u32::to_string *)
RECURSIVE to_string(_)
to_string(n) ==
    IF n < 10 THEN <<DigitChar(n)>>
    ELSE to_string(n \div 10) \o <<DigitChar(n % 10)>>

(* The value of a digit character ('1'..='9' as u8 - b'0') *)
DigitVal(c) ==
    CASE c = "0" -> 0 [] c = "1" -> 1 [] c = "2" -> 2 [] c = "3" -> 3
      [] c = "4" -> 4 [] c = "5" -> 5 [] c = "6" -> 6 [] c = "7" -> 7
      [] c = "8" -> 8 [] c = "9" -> 9

IsDigit1to9(c) == c \in {"1", "2", "3", "4", "5", "6", "7", "8", "9"}
IsDigit1to4(c) == c \in {"1", "2", "3", "4"}

----------------------------------------------------------------------------
(* The remote API: a small catalog standing for the 10000-entry listing.    *)

(* Ids of the listing, in listing order (two of generation 1, one of 2) *)
Catalog == <<1, 2, 152>>

NameOf(id) ==
    CASE id = 1 -> <<"a", "b">>
      [] id = 2 -> <<"b", "a">>
      [] OTHER -> <<"g", "a">>

(* The type names of an entity's detail record *)
TypesOf(id) ==
    CASE id = 1 -> <<"grass", "poison">>
      [] id = 2 -> <<"grass">>
      [] OTHER -> <<"fire">>

(* The move names of an entity's detail record *)
MovesOf(id) ==
    CASE id = 1 -> <<<<"a">>, <<"b">>, <<"c">>>>
      [] id = 2 -> <<<<"b">>>>
      [] OTHER -> <<>>

(* sprites.front_default of an entity's detail record *)
SpriteUrlOf(id) == IF id = 152 THEN None ELSE Some(<<"sprite", id>>)

(* The move record served for a move name: b has power 90, g has none, a,
   c and the others have 50 *)
MoveDetailOf(name) ==
    [name |-> name,
     power |-> IF name = <<"b">> THEN Some(90)
               ELSE IF name = <<"g">> THEN None ELSE Some(50),
     move_type |-> "normal"]

(* PokemonSummary as the catalog loader builds it (app.rs:232-236) *)
PokemonSummary(id) == [id |-> id, name |-> NameOf(id), types |-> <<>>]

(* PokemonDetail as served for /pokemon/{id} *)
PokemonDetail(id) ==
    [id |-> id, name |-> NameOf(id), types |-> TypesOf(id),
     moves |-> MovesOf(id), sprites |-> [front_default |-> SpriteUrlOf(id)]]

(* The bytes served for an entity's sprite URL *)
SpriteBytes(id) == <<"png", id>>

(* The 18 type names the type-table loader fetches, in order *)
type_names ==
    <<"normal", "fire", "water", "electric", "grass", "ice", "fighting",
      "poison", "ground", "flying", "psychic", "bug", "rock", "ghost",
      "dragon", "dark", "steel", "fairy">>

TypeInfo(name) == [name |-> name]

(* fn pokemon_generation *)
pokemon_generation(id) ==
    CASE id >= 1 /\ id <= 151 -> 1
      [] id >= 152 /\ id <= 251 -> 2
      [] id >= 252 /\ id <= 386 -> 3
      [] id >= 387 /\ id <= 493 -> 4
      [] id >= 494 /\ id <= 649 -> 5
      [] id >= 650 /\ id <= 721 -> 6
      [] id >= 722 /\ id <= 809 -> 7
      [] id >= 810 /\ id <= 905 -> 8
      [] id >= 906 /\ id <= 1025 -> 9
      [] OTHER -> 9

(* Screen::all and Screen::index *)
ScreenAll == <<"PokemonList", "PokemonDetail", "TypeChart", "TeamBuilder">>

ScreenIndex(screen) ==
    CASE screen = "PokemonList" -> 0
      [] screen = "PokemonDetail" -> 1
      [] screen = "TypeChart" -> 2
      [] screen = "TeamBuilder" -> 3

LoadingState == {"Idle", "Loading", "Loaded", "Error"}

----------------------------------------------------------------------------
(* AppEvent (event.rs:11-22) *)

EvKey(key) == [type |-> "Key", arg |-> key]
EvPokemonListLoaded(list) == [type |-> "PokemonListLoaded", arg |-> list]
EvPokemonTypesUpdated(batch) == [type |-> "PokemonTypesUpdated", arg |-> batch]
EvPokemonDetailLoaded(detail) == [type |-> "PokemonDetailLoaded", arg |-> detail]
EvSpriteLoaded(id, bytes) == [type |-> "SpriteLoaded", arg |-> <<id, bytes>>]
EvTypesLoaded(infos) == [type |-> "TypesLoaded", arg |-> infos]
EvMovesLoaded(moves) == [type |-> "MovesLoaded", arg |-> moves]
EvApiError(msg) == [type |-> "ApiError", arg |-> msg]

(* KeyEvent: code is "Char" (with ch) or the name of a special key *)
KeyChar(c) == [code |-> "Char", ch |-> c, ctrl |-> FALSE]
KeyCtrl(c) == [code |-> "Char", ch |-> c, ctrl |-> TRUE]
KeyCode(name) == [code |-> name, ch |-> "", ctrl |-> FALSE]
IsChar(key, c) == key.code = "Char" /\ key.ch = c

----------------------------------------------------------------------------
(* Background loader tasks.  A task is at an await (pc) or has events it   *)
(* is about to send (out); it sends them one at a time, in order.          *)

Task(kind, id, pc) ==
    [kind |-> kind, id |-> id, pc |-> pc, k |-> 1, names |-> <<>>, out |-> <<>>]

ListTask == Task("list", 0, "fetch_list")
DetailTask(id) == Task("detail", id, "fetch_detail")
TypesTask == Task("types", 0, "fetch_types")
MovesTask(names) == [Task("moves", 0, "fetch_moves") EXCEPT !.names = names]

----------------------------------------------------------------------------
(* The App struct and its methods (app.rs) *)

(* TeamData::default (team.rs:8-17); a team's name "Team n" is kept as n *)
DefaultTeamData == [teams |-> <<[name |-> 1, members |-> <<>>]>>]

TeamMember(id, name, types) ==
    [pokemon_id |-> id, pokemon_name |-> name, types |-> types, moves |-> <<>>]

(* App::new, with the roster TeamData::load returned *)
AppNew(team_data) ==
    [running |-> TRUE,
     screen |-> "PokemonList",
     pokemon_list |-> <<>>,
     list_state |-> 0,
     list_loading |-> "Idle",
     search_mode |-> FALSE,
     search_query |-> <<>>,
     generation_filter |-> None,
     detail |-> None,
     detail_loading |-> "Idle",
     sprite_bytes |-> None,
     detail_pokemon_id |-> None,
     detail_list_index |-> None,
     type_infos |-> <<>>,
     type_chart_loading |-> "Idle",
     type_chart_scroll_x |-> 0,
     type_chart_scroll_y |-> 0,
     team_data |-> team_data,
     current_team |-> 0,
     team_slot_selected |-> 0,
     modal |-> None,
     modal_selected |-> 0,
     modal_search |-> <<>>,
     available_moves |-> <<>>,
     moves_loading |-> "Idle",
     error_message |-> None]

(* The list filtered by generation and by a query (app.rs:191-206, 776-791) *)
FilterList(list, generation_filter, query) ==
    LET byGen ==
            IF IsSome(generation_filter)
            THEN Retain(list, LAMBDA p :
                     pokemon_generation(p.id) = Unwrap(generation_filter))
            ELSE list
        q == to_lowercase(query)
    IN  IF query # <<>>
        THEN Retain(byGen, LAMBDA p :
                 Contains(p.name, q) \/ Contains(to_string(p.id), q))
        ELSE byGen

filtered_list(a) == FilterList(a.pokemon_list, a.generation_filter, a.search_query)

modal_filtered_list(a) ==
    FilterList(a.pokemon_list, a.generation_filter, a.modal_search)

(* App::current_team *)
current_team(a) == a.team_data.teams[a.current_team + 1]

(* TeamData::save: the roster file is rewritten unless the write fails *)
save(w) == IF w.fs_ok THEN [w EXCEPT !.saved = Some(w.app.team_data)] ELSE w

(* tokio::spawn *)
spawn(w, task) == [w EXCEPT !.spawned = Append(@, task)]

(* App::start_loading_list *)
start_loading_list(w) ==
    IF w.app.list_loading = "Loaded" THEN w
    ELSE spawn([w EXCEPT !.app.list_loading = "Loading"], ListTask)

(* A load_detail that takes the tracked id alone for a request served *)
load_detail_if_untracked(w, id) ==
    IF w.app.detail_pokemon_id = Some(id) THEN w
    ELSE spawn([w EXCEPT
                   !.app.detail_list_index =
                       Position(filtered_list(w.app), LAMBDA p : p.id = id),
                   !.app.detail = None,
                   !.app.sprite_bytes = None,
                   !.app.detail_pokemon_id = Some(id),
                   !.app.detail_loading = "Loading"],
               DetailTask(id))

(* App::load_detail *)
load_detail(w, id) ==
    IF w.app.detail_pokemon_id = Some(id) /\ IsSome(w.app.detail) THEN w
    ELSE spawn([w EXCEPT
                   !.app.detail_list_index =
                       Position(filtered_list(w.app), LAMBDA p : p.id = id),
                   !.app.detail = None,
                   !.app.sprite_bytes = None,
                   !.app.detail_pokemon_id = Some(id),
                   !.app.detail_loading = "Loading"],
               DetailTask(id))

(* App::load_types *)
load_types(w) ==
    IF w.app.type_chart_loading = "Loaded" THEN w
    ELSE spawn([w EXCEPT !.app.type_chart_loading = "Loading"], TypesTask)

(* The number of moves load_moves_for_pokemon takes from a detail record *)
MaxMovesLoaded == 50

(* App::load_moves_for_pokemon *)
load_moves_for_pokemon(w, detail) ==
    spawn([w EXCEPT !.app.moves_loading = "Loading",
                    !.app.available_moves = <<>>],
          MovesTask(Take(detail.moves, MaxMovesLoaded)))

----------------------------------------------------------------------------
(* Key handling (app.rs:418-831) *)

IsCode(key, name) == key.code = name

(* The cycle of the 'G' and 'g' keys: None -> 1 -> ... -> 9 -> None *)
NextGeneration(g) ==
    IF g = None THEN Some(1)
    ELSE IF g = Some(9) THEN None
    ELSE Some(Unwrap(g) + 1)

(* App::on_screen_enter *)
on_screen_enter(w) ==
    CASE w.app.screen = "PokemonList" -> start_loading_list(w)
      [] w.app.screen = "PokemonDetail" ->
            IF w.app.detail = None /\ w.app.pokemon_list # <<>>
            THEN LET filtered == filtered_list(w.app)
                 IN  IF filtered # <<>> THEN load_detail(w, filtered[1].id) ELSE w
            ELSE w
      [] w.app.screen = "TypeChart" -> load_types(w)
      [] w.app.screen = "TeamBuilder" -> w

(* A list screen whose generation keys leave the cursor where it is *)
handle_list_key_keep_cursor(w, key) ==
    LET a == w.app IN
    IF a.search_mode THEN
        CASE IsCode(key, "Esc") -> [w EXCEPT !.app.search_mode = FALSE]
          [] IsCode(key, "Enter") -> [w EXCEPT !.app.search_mode = FALSE]
          [] IsCode(key, "Backspace") ->
                [w EXCEPT !.app.search_query = Pop(@), !.app.list_state = 0]
          [] IsCode(key, "Char") ->
                [w EXCEPT !.app.search_query = Append(@, key.ch),
                          !.app.list_state = 0]
          [] OTHER -> w
    ELSE
        CASE IsChar(key, "/") ->
                [w EXCEPT !.app.search_mode = TRUE, !.app.search_query = <<>>]
          [] IsChar(key, "G") \/ IsChar(key, "g") ->
                [w EXCEPT !.app.generation_filter = NextGeneration(@),
                          !.app.list_state = 0]
          [] IsChar(key, "0") ->
                [w EXCEPT !.app.generation_filter = None, !.app.list_state = 0]
          [] IsCode(key, "Char") /\ IsDigit1to9(key.ch) ->
                [w EXCEPT !.app.generation_filter = Some(DigitVal(key.ch))]
          [] IsCode(key, "Up") \/ IsChar(key, "k") ->
                IF a.list_state > 0
                THEN [w EXCEPT !.app.list_state = @ - 1] ELSE w
          [] IsCode(key, "Down") \/ IsChar(key, "j") ->
                IF a.list_state < saturating_sub(Len(filtered_list(a)), 1)
                THEN [w EXCEPT !.app.list_state = @ + 1] ELSE w
          [] IsCode(key, "Enter") ->
                LET p == Get(filtered_list(a), a.list_state)
                IN  IF IsSome(p)
                    THEN [load_detail(w, Unwrap(p).id) EXCEPT
                             !.app.screen = "PokemonDetail"]
                    ELSE w
          [] OTHER -> w

(* App::handle_list_key *)
handle_list_key(w, key) ==
    LET a == w.app IN
    IF a.search_mode THEN
        CASE IsCode(key, "Esc") -> [w EXCEPT !.app.search_mode = FALSE]
          [] IsCode(key, "Enter") -> [w EXCEPT !.app.search_mode = FALSE]
          [] IsCode(key, "Backspace") ->
                [w EXCEPT !.app.search_query = Pop(@), !.app.list_state = 0]
          [] IsCode(key, "Char") ->
                [w EXCEPT !.app.search_query = Append(@, key.ch),
                          !.app.list_state = 0]
          [] OTHER -> w
    ELSE
        CASE IsChar(key, "/") ->
                [w EXCEPT !.app.search_mode = TRUE, !.app.search_query = <<>>]
          [] IsChar(key, "G") \/ IsChar(key, "g") ->
                [w EXCEPT !.app.generation_filter = NextGeneration(@),
                          !.app.list_state = 0]
          [] IsChar(key, "0") ->
                [w EXCEPT !.app.generation_filter = None, !.app.list_state = 0]
          [] IsCode(key, "Char") /\ IsDigit1to9(key.ch) ->
                [w EXCEPT !.app.generation_filter = Some(DigitVal(key.ch)),
                          !.app.list_state = 0]
          [] IsCode(key, "Up") \/ IsChar(key, "k") ->
                IF a.list_state > 0
                THEN [w EXCEPT !.app.list_state = @ - 1] ELSE w
          [] IsCode(key, "Down") \/ IsChar(key, "j") ->
                IF a.list_state < saturating_sub(Len(filtered_list(a)), 1)
                THEN [w EXCEPT !.app.list_state = @ + 1] ELSE w
          [] IsCode(key, "Enter") ->
                LET p == Get(filtered_list(a), a.list_state)
                IN  IF IsSome(p)
                    THEN [load_detail(w, Unwrap(p).id) EXCEPT
                             !.app.screen = "PokemonDetail"]
                    ELSE w
          [] OTHER -> w

(* The number of members a team holds at most (app.rs:578, 751) *)
MaxTeamMembers == 6

(* The number of moves a member holds at most (app.rs:818, 820) *)
MaxMemberMoves == 4

(* Vec::push of a member onto the current team *)
PushMember(w, member) ==
    [w EXCEPT !.app.team_data.teams[w.app.current_team + 1].members =
                  Append(@, member)]

(* A detail screen whose a key adds a member to a full team as well *)
handle_detail_key_any_size(w, key) ==
    IF IsChar(key, "a") /\ IsSome(w.app.detail)
    THEN LET detail == Unwrap(w.app.detail)
         IN  save(PushMember(w, TeamMember(detail.id, detail.name, detail.types)))
    ELSE w

(* App::handle_detail_key *)
handle_detail_key(w, key) ==
    LET a == w.app IN
    CASE IsCode(key, "Esc") -> [w EXCEPT !.app.screen = "PokemonList"]
      [] IsChar(key, "a") ->
            IF IsSome(a.detail) /\ Len(current_team(a).members) < MaxTeamMembers
            THEN LET detail == Unwrap(a.detail)
                 IN  save(PushMember(w,
                         TeamMember(detail.id, detail.name, detail.types)))
            ELSE w
      [] IsCode(key, "Left") ->
            IF IsSome(a.detail_list_index) /\ Unwrap(a.detail_list_index) > 0
            THEN LET prev == Get(filtered_list(a), Unwrap(a.detail_list_index) - 1)
                 IN  IF IsSome(prev) THEN load_detail(w, Unwrap(prev).id) ELSE w
            ELSE w
      [] IsCode(key, "Right") ->
            IF IsSome(a.detail_list_index)
               /\ Unwrap(a.detail_list_index)
                      < saturating_sub(Len(filtered_list(a)), 1)
            THEN LET next == Get(filtered_list(a), Unwrap(a.detail_list_index) + 1)
                 IN  IF IsSome(next) THEN load_detail(w, Unwrap(next).id) ELSE w
            ELSE w
      [] OTHER -> w

(* The last row and column of the type chart (app.rs:626, 634) *)
MaxTypeChartScroll == 17

(* App::handle_type_chart_key *)
handle_type_chart_key(w, key) ==
    LET a == w.app IN
    CASE IsCode(key, "Up") \/ IsChar(key, "k") ->
            [w EXCEPT !.app.type_chart_scroll_y = saturating_sub(@, 1)]
      [] IsCode(key, "Down") \/ IsChar(key, "j") ->
            IF a.type_chart_scroll_y < MaxTypeChartScroll
            THEN [w EXCEPT !.app.type_chart_scroll_y = @ + 1] ELSE w
      [] IsCode(key, "Left") \/ IsChar(key, "h") ->
            [w EXCEPT !.app.type_chart_scroll_x = saturating_sub(@, 1)]
      [] IsCode(key, "Right") \/ IsChar(key, "l") ->
            IF a.type_chart_scroll_x < MaxTypeChartScroll
            THEN [w EXCEPT !.app.type_chart_scroll_x = @ + 1] ELSE w
      [] OTHER -> w

(* The last slot index of the team screen (app.rs:650) *)
LastTeamSlot == 5

(* A team screen whose Right key goes one past the last team *)
handle_team_key_past_last(w, key) ==
    LET a == w.app
        slot == a.team_slot_selected
        members == current_team(a).members
    IN
    CASE IsCode(key, "Up") \/ IsChar(key, "k") ->
            IF slot > 0 THEN [w EXCEPT !.app.team_slot_selected = @ - 1] ELSE w
      [] IsCode(key, "Down") \/ IsChar(key, "j") ->
            IF slot < LastTeamSlot
            THEN [w EXCEPT !.app.team_slot_selected = @ + 1] ELSE w
      [] IsCode(key, "Enter") ->
            IF slot < Len(members)
            THEN LET member_id == members[slot + 1].pokemon_id
                     detail_matches ==
                         IsSome(a.detail) /\ Unwrap(a.detail).id = member_id
                 IN  IF detail_matches
                     THEN load_moves_for_pokemon(
                              [w EXCEPT !.app.modal = Some("MovePicker"),
                                        !.app.modal_selected = 0],
                              Unwrap(a.detail))
                     ELSE [load_detail(w, member_id) EXCEPT
                              !.app.modal = Some("MovePicker"),
                              !.app.modal_selected = 0]
            ELSE start_loading_list(
                     [w EXCEPT !.app.modal = Some("PokemonPicker"),
                               !.app.modal_selected = 0,
                               !.app.modal_search = <<>>])
      [] IsChar(key, "d") \/ IsCode(key, "Delete") ->
            IF slot < Len(members)
            THEN save([w EXCEPT
                     !.app.team_data.teams[a.current_team + 1].members =
                         Remove(@, slot)])
            ELSE w
      [] IsChar(key, "n") ->
            save([w EXCEPT
                     !.app.team_data.teams =
                         Append(@, [name |-> Len(a.team_data.teams) + 1,
                                    members |-> <<>>]),
                     !.app.current_team = Len(a.team_data.teams),
                     !.app.team_slot_selected = 0])
      [] IsCode(key, "Left") \/ IsChar(key, "h") ->
            IF a.current_team > 0
            THEN [w EXCEPT !.app.current_team = @ - 1,
                           !.app.team_slot_selected = 0]
            ELSE w
      [] IsCode(key, "Right") \/ IsChar(key, "l") ->
            IF a.current_team < Len(a.team_data.teams)
            THEN [w EXCEPT !.app.current_team = @ + 1,
                           !.app.team_slot_selected = 0]
            ELSE w
      [] OTHER -> w

(* App::handle_team_key *)
handle_team_key(w, key) ==
    LET a == w.app
        slot == a.team_slot_selected
        members == current_team(a).members
    IN
    CASE IsCode(key, "Up") \/ IsChar(key, "k") ->
            IF slot > 0 THEN [w EXCEPT !.app.team_slot_selected = @ - 1] ELSE w
      [] IsCode(key, "Down") \/ IsChar(key, "j") ->
            IF slot < LastTeamSlot
            THEN [w EXCEPT !.app.team_slot_selected = @ + 1] ELSE w
      [] IsCode(key, "Enter") ->
            IF slot < Len(members)
            THEN LET member_id == members[slot + 1].pokemon_id
                     detail_matches ==
                         IsSome(a.detail) /\ Unwrap(a.detail).id = member_id
                 IN  IF detail_matches
                     THEN load_moves_for_pokemon(
                              [w EXCEPT !.app.modal = Some("MovePicker"),
                                        !.app.modal_selected = 0],
                              Unwrap(a.detail))
                     ELSE [load_detail(w, member_id) EXCEPT
                              !.app.modal = Some("MovePicker"),
                              !.app.modal_selected = 0]
            ELSE start_loading_list(
                     [w EXCEPT !.app.modal = Some("PokemonPicker"),
                               !.app.modal_selected = 0,
                               !.app.modal_search = <<>>])
      [] IsChar(key, "d") \/ IsCode(key, "Delete") ->
            IF slot < Len(members)
            THEN save([w EXCEPT
                     !.app.team_data.teams[a.current_team + 1].members =
                         Remove(@, slot)])
            ELSE w
      [] IsChar(key, "n") ->
            save([w EXCEPT
                     !.app.team_data.teams =
                         Append(@, [name |-> Len(a.team_data.teams) + 1,
                                    members |-> <<>>]),
                     !.app.current_team = Len(a.team_data.teams),
                     !.app.team_slot_selected = 0])
      [] IsCode(key, "Left") \/ IsChar(key, "h") ->
            IF a.current_team > 0
            THEN [w EXCEPT !.app.current_team = @ - 1,
                           !.app.team_slot_selected = 0]
            ELSE w
      [] IsCode(key, "Right") \/ IsChar(key, "l") ->
            IF a.current_team < Len(a.team_data.teams) - 1
            THEN [w EXCEPT !.app.current_team = @ + 1,
                           !.app.team_slot_selected = 0]
            ELSE w
      [] OTHER -> w

(* App::handle_pokemon_picker_key *)
handle_pokemon_picker_key(w, key) ==
    LET a == w.app IN
    IF (IsCode(key, "Up") \/ IsChar(key, "k")) /\ ~a.search_mode THEN
        IF a.modal_selected > 0 THEN [w EXCEPT !.app.modal_selected = @ - 1] ELSE w
    ELSE IF (IsCode(key, "Down") \/ IsChar(key, "j")) /\ ~a.search_mode THEN
        IF a.modal_selected < saturating_sub(Len(modal_filtered_list(a)), 1)
        THEN [w EXCEPT !.app.modal_selected = @ + 1] ELSE w
    ELSE IF IsChar(key, "/") /\ ~a.search_mode THEN
        [w EXCEPT !.app.search_mode = TRUE, !.app.modal_search = <<>>]
    ELSE IF IsCode(key, "Enter") THEN
        IF a.search_mode THEN [w EXCEPT !.app.search_mode = FALSE]
        ELSE LET p == Get(modal_filtered_list(a), a.modal_selected)
             IN  IF IsSome(p) /\ Len(current_team(a).members) < MaxTeamMembers
                 THEN [save(PushMember(w,
                           TeamMember(Unwrap(p).id, Unwrap(p).name,
                                      Unwrap(p).types)))
                       EXCEPT !.app.modal = None]
                 ELSE w
    ELSE IF IsCode(key, "Backspace") /\ a.search_mode THEN
        [w EXCEPT !.app.modal_search = Pop(@), !.app.modal_selected = 0]
    ELSE IF IsCode(key, "Char") /\ a.search_mode THEN
        [w EXCEPT !.app.modal_search = Append(@, key.ch),
                  !.app.modal_selected = 0]
    ELSE w

(* A move picker that closes after every move it adds *)
handle_move_picker_key_close_on_add(w, key) ==
    LET a == w.app
        slot == a.team_slot_selected
        members == current_team(a).members
    IN
    CASE IsCode(key, "Up") \/ IsChar(key, "k") ->
            IF a.modal_selected > 0
            THEN [w EXCEPT !.app.modal_selected = @ - 1] ELSE w
      [] IsCode(key, "Down") \/ IsChar(key, "j") ->
            IF a.modal_selected < saturating_sub(Len(a.available_moves), 1)
            THEN [w EXCEPT !.app.modal_selected = @ + 1] ELSE w
      [] IsCode(key, "Enter") ->
            LET mv == Get(a.available_moves, a.modal_selected)
            IN  IF IsSome(mv) /\ slot < Len(members)
                   /\ Len(members[slot + 1].moves) < MaxMemberMoves
                THEN LET new_move ==
                             [name |-> Unwrap(mv).name,
                              move_type |-> Unwrap(mv).move_type,
                              power |-> Unwrap(mv).power]
                         full == Len(members[slot + 1].moves) + 1 >= 1
                         pushed ==
                             save([w EXCEPT
                                 !.app.team_data.teams[a.current_team + 1]
                                     .members[slot + 1].moves =
                                         Append(@, new_move)])
                     IN  IF full THEN [pushed EXCEPT !.app.modal = None]
                         ELSE pushed
                ELSE w
      [] OTHER -> w

(* App::handle_move_picker_key *)
handle_move_picker_key(w, key) ==
    LET a == w.app
        slot == a.team_slot_selected
        members == current_team(a).members
    IN
    CASE IsCode(key, "Up") \/ IsChar(key, "k") ->
            IF a.modal_selected > 0
            THEN [w EXCEPT !.app.modal_selected = @ - 1] ELSE w
      [] IsCode(key, "Down") \/ IsChar(key, "j") ->
            IF a.modal_selected < saturating_sub(Len(a.available_moves), 1)
            THEN [w EXCEPT !.app.modal_selected = @ + 1] ELSE w
      [] IsCode(key, "Enter") ->
            LET mv == Get(a.available_moves, a.modal_selected)
            IN  IF IsSome(mv) /\ slot < Len(members)
                   /\ Len(members[slot + 1].moves) < MaxMemberMoves
                THEN LET new_move ==
                             [name |-> Unwrap(mv).name,
                              move_type |-> Unwrap(mv).move_type,
                              power |-> Unwrap(mv).power]
                         full == Len(members[slot + 1].moves) + 1 >= MaxMemberMoves
                         pushed ==
                             save([w EXCEPT
                                 !.app.team_data.teams[a.current_team + 1]
                                     .members[slot + 1].moves =
                                         Append(@, new_move)])
                     IN  IF full THEN [pushed EXCEPT !.app.modal = None]
                         ELSE pushed
                ELSE w
      [] OTHER -> w

(* A modal that lets q through to the quit arm *)
handle_modal_key_or_quit(w, key, modal) ==
    IF IsChar(key, "q") THEN [w EXCEPT !.app.running = FALSE]
    ELSE IF IsCode(key, "Esc") THEN [w EXCEPT !.app.modal = None]
    ELSE IF modal = "PokemonPicker" THEN handle_pokemon_picker_key(w, key)
    ELSE handle_move_picker_key(w, key)

(* App::handle_modal_key *)
handle_modal_key(w, key, modal) ==
    IF IsCode(key, "Esc") THEN [w EXCEPT !.app.modal = None]
    ELSE IF modal = "PokemonPicker" THEN handle_pokemon_picker_key(w, key)
    ELSE handle_move_picker_key(w, key)

(* A banner dismissal that lets the quit keys through *)
dismiss_error_or_quit(w, key) ==
    IF (IsChar(key, "q") /\ ~w.app.search_mode) \/ (IsChar(key, "c") /\ key.ctrl)
    THEN [w EXCEPT !.app.error_message = None, !.app.running = FALSE]
    ELSE [w EXCEPT !.app.error_message = None]

(* "Dismiss error on any key" at the head of handle_key (app.rs:419-423) *)
dismiss_error(w, key) == [w EXCEPT !.app.error_message = None]

(* App::handle_key *)
handle_key(w, key) ==
    LET a == w.app
        idx == ScreenIndex(a.screen)
        n == Len(ScreenAll)
    IN
    IF IsSome(a.error_message) THEN dismiss_error(w, key)
    ELSE IF IsSome(a.modal) THEN handle_modal_key(w, key, Unwrap(a.modal))
    ELSE IF IsChar(key, "q") /\ ~a.search_mode THEN
        [w EXCEPT !.app.running = FALSE]
    ELSE IF IsChar(key, "c") /\ key.ctrl THEN
        [w EXCEPT !.app.running = FALSE]
    ELSE IF IsCode(key, "Tab") /\ ~a.search_mode THEN
        on_screen_enter([w EXCEPT !.app.screen = ScreenAll[((idx + 1) % n) + 1]])
    ELSE IF IsCode(key, "BackTab") /\ ~a.search_mode THEN
        on_screen_enter(
            [w EXCEPT !.app.screen = ScreenAll[((idx + n - 1) % n) + 1]])
    ELSE IF IsCode(key, "Char") /\ IsDigit1to4(key.ch) /\ ~a.search_mode
            /\ a.screen # "PokemonList" THEN
        on_screen_enter([w EXCEPT !.app.screen = ScreenAll[DigitVal(key.ch)]])
    ELSE
        CASE a.screen = "PokemonList" -> handle_list_key(w, key)
          [] a.screen = "PokemonDetail" -> handle_detail_key(w, key)
          [] a.screen = "TypeChart" -> handle_type_chart_key(w, key)
          [] a.screen = "TeamBuilder" -> handle_team_key(w, key)

(* A merge that adds an entry for an id the list does not hold *)
MergeTypesOrInsert(list, pair) ==
    LET hit == Position(list, LAMBDA p : p.id = pair[1])
    IN  IF IsSome(hit)
        THEN [list EXCEPT ![Unwrap(hit) + 1].types = pair[2]]
        ELSE Append(list, [id |-> pair[1], name |-> <<>>, types |-> pair[2]])

(* The merge of one (id, types) pair into the list (app.rs:387-389) *)
MergeTypes(list, pair) ==
    LET hit == Position(list, LAMBDA p : p.id = pair[1])
    IN  IF IsSome(hit)
        THEN [list EXCEPT ![Unwrap(hit) + 1].types = pair[2]]
        ELSE list

RECURSIVE MergeBatch(_, _)
MergeBatch(list, batch) ==
    IF batch = <<>> THEN list
    ELSE MergeBatch(MergeTypes(list, Head(batch)), Tail(batch))

(* A sprite handler that applies every sprite it is given *)
sprite_loaded_unguarded(w, id, bytes) ==
    [w EXCEPT !.app.sprite_bytes = Some(bytes)]

(* The AppEvent::SpriteLoaded arm of handle_event (app.rs:396-400) *)
sprite_loaded(w, id, bytes) ==
    IF w.app.detail_pokemon_id = Some(id)
    THEN [w EXCEPT !.app.sprite_bytes = Some(bytes)]
    ELSE w

(* App::handle_event *)
handle_event(w, event) ==
    CASE event.type = "Key" -> handle_key(w, event.arg)
      [] event.type = "Tick" -> w
      [] event.type = "PokemonListLoaded" ->
            [w EXCEPT !.app.pokemon_list = event.arg,
                      !.app.list_loading = "Loaded"]
      [] event.type = "PokemonTypesUpdated" ->
            [w EXCEPT !.app.pokemon_list = MergeBatch(@, event.arg)]
      [] event.type = "PokemonDetailLoaded" ->
            [w EXCEPT !.app.detail = Some(event.arg),
                      !.app.detail_loading = "Loaded"]
      [] event.type = "SpriteLoaded" ->
            sprite_loaded(w, event.arg[1], event.arg[2])
      [] event.type = "TypesLoaded" ->
            [w EXCEPT !.app.type_infos = event.arg,
                      !.app.type_chart_loading = "Loaded"]
      [] event.type = "MovesLoaded" ->
            [w EXCEPT !.app.available_moves = event.arg,
                      !.app.moves_loading = "Loaded"]
      [] event.type = "ApiError" ->
            [w EXCEPT !.app.error_message = Some(event.arg),
                      !.app.list_loading = "Error",
                      !.app.detail_loading = "Error",
                      !.app.type_chart_loading = "Error"]

----------------------------------------------------------------------------
(* The move-table order (app.rs:367-372) *)

CharRank(c) ==
    CASE c = "a" -> 1 [] c = "b" -> 2 [] c = "c" -> 3 [] c = "g" -> 4
      [] OTHER -> 5

(* str::cmp: s sorts strictly before t *)
RECURSIVE StrLess(_, _)
StrLess(s, t) ==
    IF t = <<>> THEN FALSE
    ELSE IF s = <<>> THEN TRUE
    ELSE IF CharRank(Head(s)) # CharRank(Head(t))
         THEN CharRank(Head(s)) < CharRank(Head(t))
    ELSE StrLess(Tail(s), Tail(t))

(* Option<u32>::unwrap_or(0) *)
unwrap_or_0(o) == IF IsSome(o) THEN Unwrap(o) ELSE 0

(* A comparator that looks at the power only *)
MoveBeforeByPower(a, b) == unwrap_or_0(a.power) > unwrap_or_0(b.power)

(* The comparator of moves.sort_by: a sorts strictly before b *)
MoveBefore(a, b) ==
    \/ unwrap_or_0(a.power) > unwrap_or_0(b.power)
    \/ /\ unwrap_or_0(a.power) = unwrap_or_0(b.power)
       /\ StrLess(a.name, b.name)

(* Stable insertion of m into a sorted list *)
RECURSIVE InsertMove(_, _)
InsertMove(sorted, m) ==
    IF sorted = <<>> THEN <<m>>
    ELSE IF MoveBefore(m, Head(sorted)) THEN <<m>> \o sorted
    ELSE <<Head(sorted)>> \o InsertMove(Tail(sorted), m)

(* Vec::sort_by with the comparator above (a stable sort) *)
RECURSIVE SortMoves(_)
SortMoves(moves) ==
    IF moves = <<>> THEN <<>>
    ELSE InsertMove(SortMoves(SubSeq(moves, 1, Len(moves) - 1)), moves[Len(moves)])

----------------------------------------------------------------------------
(* Bounds of the model *)

(* Loader tasks running at the same time *)
MaxTasks == 2

(* Key events typed in one run *)
MaxKeys == 3

(* Events waiting in the channel *)
MaxChan == 2

(* Characters of a search query *)
MaxQuery == 1

(* Teams of the roster *)
MaxTeams == 2

(* The catalog loader's batch size, scaled down from 30 (app.rs:247) *)
ChunkSize == 2

----------------------------------------------------------------------------
(* The catalog loader's batches (app.rs:244-247) *)

NumChunks(entries) == (Len(entries) + ChunkSize - 1) \div ChunkSize

(* A listing that is not cut into chunks: every batch is the whole of it *)
ChunkWhole(entries, k) == entries

Chunk(entries, k) ==
    SubSeq(entries, (k - 1) * ChunkSize + 1,
           IF k * ChunkSize < Len(entries) THEN k * ChunkSize ELSE Len(entries))

(* The batch collected from a chunk whose members at positions ok succeeded
   (app.rs:265-270) *)
BatchOf(chunk, ok) ==
    LET hits == Retain([i \in 1..Len(chunk) |-> i], LAMBDA i : i \in ok)
    IN  [j \in 1..Len(hits) |-> <<chunk[hits[j]], TypesOf(chunk[hits[j]])>>]

----------------------------------------------------------------------------
(* The application: main, the input thread, the consumer and the loaders *)

(* What teams.json holds at start: one team with entity 1 as its member *)
InitSaved ==
    {Some([teams |-> <<[name |-> 1,
                        members |-> <<TeamMember(1, NameOf(1), TypesOf(1))>>]>>])}

(* TeamData::load (team.rs:41-49) *)
load(file) == IF IsSome(file) THEN Unwrap(file) ELSE DefaultTeamData

World(fs_ok) == [app |-> app, spawned |-> <<>>, saved |-> saved, fs_ok |-> fs_ok]

(* What a step of the state owner leaves behind *)
Outcome(w) == [app |-> w.app, spawned |-> w.spawned, saved |-> w.saved]

(* The outcome of a step of the state owner becomes the next state *)
Commit(w) ==
    /\ Len(tasks) + Len(w.spawned) <= MaxTasks
    /\ Len(w.app.search_query) <= MaxQuery
    /\ Len(w.app.modal_search) <= MaxQuery
    /\ Len(w.app.team_data.teams) <= MaxTeams
    /\ app' = w.app
    /\ tasks' = tasks \o w.spawned
    /\ saved' = w.saved

(* main: app.start_loading_list() before the event loop (main.rs:23) *)
MainStart ==
    /\ mainpc = "init"
    /\ mainpc' = "run"
    /\ Commit(Outcome(start_loading_list(World(TRUE))))
    /\ UNCHANGED <<chan, nkeys, lastev, gwvars, ldvars>>

(* An event in the channel, with a note of the producer that sent it: the
   input thread or the loader task of that kind and entity. The note is not
   part of AppEvent; handle_event never reads it *)
SentBy(kind, id, event) ==
    [type |-> event.type, arg |-> event.arg, from |-> <<kind, id>>]

(* The input thread sends one key event (event.rs:35-43) *)
Input(key) ==
    /\ app.running
    /\ Len(chan) < MaxChan
    /\ nkeys < MaxKeys
    /\ nkeys' = nkeys + 1
    /\ chan' = Append(chan, SentBy("input", 0, EvKey(key)))
    /\ UNCHANGED <<app, tasks, saved, mainpc, lastev, gwvars, ldvars>>

(* What an event is about: its kind, and the entity a detail or sprite result
   belongs to (0 for the other kinds) *)
Subject(event) ==
    [type |-> event.type,
     id   |-> IF event.type = "PokemonDetailLoaded" THEN event.arg.id
              ELSE IF event.type = "SpriteLoaded" THEN event.arg[1]
              ELSE 0]

(* An event loop that takes the newest event of the queue *)
ReceiveNewest ==
    /\ mainpc = "run"
    /\ app.running
    /\ chan # <<>>
    /\ \E w \in {Outcome(handle_event(World(fs_ok), chan[Len(chan)])) :
                    fs_ok \in BOOLEAN} : Commit(w)
    /\ chan' = SubSeq(chan, 1, Len(chan) - 1)
    /\ lastev' = IF chan[Len(chan)].type = "SpriteLoaded"
                 THEN Some(Subject(chan[Len(chan)])) ELSE None
    /\ UNCHANGED <<mainpc, nkeys, gwvars, ldvars>>

(* One turn of the event loop: events.next() then app.handle_event
   (main.rs:32-37) *)
Receive ==
    /\ mainpc = "run"
    /\ app.running
    /\ chan # <<>>
    /\ \E w \in {Outcome(handle_event(World(fs_ok), Head(chan))) :
                    fs_ok \in BOOLEAN} : Commit(w)
    /\ chan' = Tail(chan)
    /\ lastev' = IF Head(chan).type = "SpriteLoaded"
                 THEN Some(Subject(Head(chan))) ELSE None
    /\ UNCHANGED <<mainpc, nkeys, gwvars, ldvars>>

(* A task's record after a step; a task that has nothing left to do ends *)
SetTask(i, t) ==
    tasks' = IF t.pc = "done" /\ t.out = <<>>
             THEN Remove(tasks, i - 1)
             ELSE [tasks EXCEPT ![i] = t]

(* Task i is suspended at the await named pc *)
AtAwait(i, kind, pc) ==
    /\ i \in 1..Len(tasks)
    /\ tasks[i].kind = kind
    /\ tasks[i].pc = pc
    /\ tasks[i].out = <<>>

(* Task i resumes from its await: it sends the first event of events at
   once (tx.send never blocks) and is then about to send the others *)
Resume(i, t, events) ==
    /\ Len(chan) + (IF events = <<>> THEN 0 ELSE 1) <= MaxChan
    /\ chan' = IF events = <<>> THEN chan
             ELSE Append(chan, SentBy(t.kind, t.id, Head(events)))
    /\ SetTask(i, [t EXCEPT !.out = IF events = <<>> THEN <<>> ELSE Tail(events)])
    /\ UNCHANGED <<app, saved, mainpc, nkeys, lastev, gwvars, ldvars>>

(* tx.send of the next event of a task that sends several in a row *)
Send(i) ==
    /\ i \in 1..Len(tasks)
    /\ tasks[i].out # <<>>
    /\ Len(chan) < MaxChan
    /\ chan' = Append(chan, SentBy(tasks[i].kind, tasks[i].id, Head(tasks[i].out)))
    /\ SetTask(i, [tasks[i] EXCEPT !.out = Tail(@)])
    /\ UNCHANGED <<app, saved, mainpc, nkeys, lastev, gwvars, ldvars>>

(* The listing the catalog loader builds from the response (app.rs:227-238) *)
Summaries == [j \in 1..Len(Catalog) |-> PokemonSummary(Catalog[j])]

(* Catalog loader: fetch_pokemon_list returns (app.rs:224-241, 276-281) *)
FetchList(i, ok) ==
    /\ AtAwait(i, "list", "fetch_list")
    /\ IF ok
       THEN Resume(i, [tasks[i] EXCEPT
                          !.names = [j \in 1..Len(Summaries) |-> Summaries[j].id],
                          !.pc = IF Summaries = <<>> THEN "done" ELSE "fetch_batch"],
                   <<EvPokemonListLoaded(Summaries)>>)
       ELSE Resume(i, [tasks[i] EXCEPT !.pc = "done"],
                   <<EvApiError(<<"Failed to load Pokemon list">>)>>)

(* Catalog loader: the fetches of batch k have all returned, those at the
   chunk positions ok with success (app.rs:247-273) *)
FetchBatch(i, ok) ==
    /\ AtAwait(i, "list", "fetch_batch")
    /\ LET t == tasks[i]
           chunk == Chunk(t.names, t.k)
           batch == BatchOf(chunk, ok)
       IN  /\ ok \subseteq 1..Len(chunk)
           /\ Resume(i, [t EXCEPT
                            !.k = @ + 1,
                            !.pc = IF t.k >= NumChunks(t.names) THEN "done" ELSE @],
                     IF batch # <<>> THEN <<EvPokemonTypesUpdated(batch)>> ELSE <<>>)

(* A detail loader that says nothing when its detail fetch fails *)
DetailRunSilentError(id, ok, sprite_ok) ==
    LET detail == PokemonDetail(id)
    IN  IF ~ok THEN <<>>
        ELSE IF IsSome(detail.sprites.front_default) /\ sprite_ok
        THEN <<EvSpriteLoaded(id, SpriteBytes(id)), EvPokemonDetailLoaded(detail)>>
        ELSE <<EvPokemonDetailLoaded(detail)>>

(* A detail loader that reports a failed sprite fetch as an error *)
DetailRunSpriteError(id, ok, sprite_ok) ==
    LET detail == PokemonDetail(id)
    IN  IF ~ok THEN <<EvApiError(<<"Failed to load detail">>)>>
        ELSE IF IsSome(detail.sprites.front_default) /\ sprite_ok
        THEN <<EvSpriteLoaded(id, SpriteBytes(id)), EvPokemonDetailLoaded(detail)>>
        ELSE IF IsSome(detail.sprites.front_default)
        THEN <<EvApiError(<<"Failed to load detail">>), EvPokemonDetailLoaded(detail)>>
        ELSE <<EvPokemonDetailLoaded(detail)>>

(* The events the detail loader sends, given how its two fetches ended
   (app.rs:300-313) *)
DetailRun(id, ok, sprite_ok) ==
    LET detail == PokemonDetail(id)
    IN  IF ~ok THEN <<EvApiError(<<"Failed to load detail">>)>>
        ELSE IF IsSome(detail.sprites.front_default) /\ sprite_ok
        THEN <<EvSpriteLoaded(id, SpriteBytes(id)), EvPokemonDetailLoaded(detail)>>
        ELSE <<EvPokemonDetailLoaded(detail)>>

(* Detail loader: its fetches have returned *)
FetchDetail(i, ok, sprite_ok) ==
    /\ AtAwait(i, "detail", "fetch_detail")
    /\ Resume(i, [tasks[i] EXCEPT !.pc = "done"],
              DetailRun(tasks[i].id, ok, sprite_ok))

(* The loop of the type-table loader from its k-th fetch on, outcomes[k]
   telling whether the k-th fetch succeeds (app.rs:330-343) *)
RECURSIVE TypesRun(_, _, _)
TypesRun(k, infos, outcomes) ==
    IF k > Len(type_names) THEN <<EvTypesLoaded(infos)>>
    ELSE IF outcomes[k]
    THEN TypesRun(k + 1, Append(infos, TypeInfo(type_names[k])), outcomes)
    ELSE <<EvApiError(<<"Failed to load type", type_names[k]>>)>>

(* Outcomes of the 18 fetches: all succeed, only the 1st fails, or the 7th
   and all later ones fail *)
TypeOutcomes ==
    {[j \in 1..Len(type_names) |-> TRUE],
     [j \in 1..Len(type_names) |-> j # 1],
     [j \in 1..Len(type_names) |-> j < 7]}

(* Type-table loader: its fetches have returned *)
FetchTypes(i, outcomes) ==
    /\ AtAwait(i, "types", "fetch_types")
    /\ Resume(i, [tasks[i] EXCEPT !.pc = "done"], TypesRun(1, <<>>, outcomes))

(* The loop of the move-table loader from its k-th fetch on, ok holding the
   positions whose fetch succeeds (app.rs:360-365) *)
RECURSIVE MovesFetched(_, _, _, _)
MovesFetched(k, moves, names, ok) ==
    IF k > Len(names) THEN moves
    ELSE MovesFetched(k + 1,
             IF k \in ok THEN Append(moves, MoveDetailOf(names[k])) ELSE moves,
             names, ok)

(* The event the move-table loader sends (app.rs:366-373) *)
MovesRun(names, ok) == <<EvMovesLoaded(SortMoves(MovesFetched(1, <<>>, names, ok)))>>

(* Move-table loader: its fetches have returned *)
FetchMoves(i, ok) ==
    /\ AtAwait(i, "moves", "fetch_moves")
    /\ ok \subseteq 1..Len(tasks[i].names)
    /\ Resume(i, [tasks[i] EXCEPT !.pc = "done"], MovesRun(tasks[i].names, ok))

TaskSlots == 1..MaxTasks

(* The keys of the navigation specification: next screen, open or confirm,
   back, next entity, team screen (generation 4 on the list screen), quit *)
NavKeys ==
    {KeyCode("Tab"), KeyCode("Enter"), KeyCode("Esc"), KeyCode("Right"),
     KeyChar("4"), KeyChar("q")}

(* The largest number of moves of a detail record of the catalog *)
MoveSlots == 1..3

----------------------------------------------------------------------------
(* The cached fetch gateway (api/client.rs, api/endpoints.rs) *)

(* const BASE_URL *)
BASE_URL ==
    <<"h", "t", "t", "p", "s", ":", "/", "/", "p", "o", "k", "e", "a", "p",
      "i", ".", "c", "o", "/", "a", "p", "i", "/", "v", "2">>

(* The characters of "/pokemon/", "/sprite/" and ".png" *)
PokemonPath == <<"/", "p", "o", "k", "e", "m", "o", "n", "/">>
SpritePath == <<"/", "s", "p", "r", "i", "t", "e", "/">>
PngSuffix == <<".", "p", "n", "g">>

(* The URL fetch_pokemon_detail builds (endpoints.rs:16) *)
DetailUrl(id) == BASE_URL \o PokemonPath \o to_string(id)

(* A sprite URL as a detail record gives it: plain http, another host *)
SpriteUrl(id) ==
    <<"h", "t", "t", "p", ":", "/", "/", "i", "m", "g", ".", "c", "o">>
        \o SpritePath \o to_string(id) \o PngSuffix

(* str::replace(pat, rep): every non-overlapping match, left to right *)
RECURSIVE Replace(_, _, _)
Replace(s, pat, rep) ==
    IF Len(s) < Len(pat) THEN s
    ELSE IF SubSeq(s, 1, Len(pat)) = pat
    THEN rep \o Replace(SubSeq(s, Len(pat) + 1, Len(s)), pat, rep)
    ELSE <<Head(s)>> \o Replace(Tail(s), pat, rep)

(* str::replace(['/', '?'], "_") *)
ReplaceChars(s, chars, rep) ==
    [i \in 1..Len(s) |-> IF s[i] \in chars THEN rep ELSE s[i]]

(* ApiClient::url_to_cache_key *)
url_to_cache_key(url) ==
    ReplaceChars(
        Replace(Replace(url, <<"h", "t", "t", "p", "s", ":", "/", "/">>, <<>>),
                <<"h", "t", "t", "p", ":", "/", "/">>, <<>>),
        {"/", "?"}, "_")

(* The URLs the model fetches and the accessor each goes through:
   fetch_pokemon_detail (get_cached) and fetch_sprite_bytes (get_bytes_cached) *)
Urls == {DetailUrl(1), SpriteUrl(1)}

UrlKind(url) == IF url = DetailUrl(1) THEN "json" ELSE "bytes"

KeyOf == [url \in Urls |-> url_to_cache_key(url)]

CacheKeys == {KeyOf[url] : url \in Urls}

(* Response bodies: one that deserializes as the caller's type and one that
   does not (an error page, a truncated file) *)
Bodies == {"v1", "bad"}

(* serde_json::from_str succeeds on the body *)
Decodes(body) == body # "bad"

(* Result<T> *)
Ok(x) == <<"Ok", x>>
Err(e) == <<"Err", e>>
IsOk(r) == r # <<>> /\ r[1] = "Ok"
IsErr(r) == r # <<>> /\ r[1] = "Err"

(* What the network does with a request: an error, or a response body *)
NetOutcomes == {Err("network")} \cup {Ok(b) : b \in Bodies}

(* A gateway whose cache never serves anything *)
CacheLookupNever(kind, entry) == None

(* The value served from the cache, if any: get_cached returns a cached
   entry only when it deserializes (client.rs:29-33); get_bytes_cached
   returns any entry (client.rs:45-47) *)
CacheLookup(kind, entry) ==
    IF kind = "json"
    THEN IF IsSome(entry) /\ Decodes(Unwrap(entry)) THEN entry ELSE None
    ELSE entry

(* A gateway where a failed cache write fails the fetch *)
RespondWriteChecked(kind, outcome, fs_ok, entry) ==
    IF IsErr(outcome) THEN [entry |-> entry, result |-> outcome]
    ELSE LET body == outcome[2]
         IN  [entry |-> IF fs_ok THEN Some(body) ELSE entry,
              result |-> IF ~fs_ok THEN Err("io")
                         ELSE IF kind = "json" /\ ~Decodes(body)
                         THEN Err("decode") ELSE Ok(body)]

(* The cache entry and the result after the network answered: on an error
   the ? operator returns it; on a body the write is attempted and its
   failure ignored, then the body is returned, deserialized for get_cached
   (client.rs:35-37, 49-51) *)
Respond(kind, outcome, fs_ok, entry) ==
    IF IsErr(outcome) THEN [entry |-> entry, result |-> outcome]
    ELSE LET body == outcome[2]
         IN  [entry |-> IF fs_ok THEN Some(body) ELSE entry,
              result |-> IF kind = "json" /\ ~Decodes(body)
                         THEN Err("decode") ELSE Ok(body)]

(* Bound of the model: gateway calls made in one run *)
MaxCalls == 3

(* A caller enters get_cached or get_bytes_cached: it returns the cached
   value at once, or sends the request and awaits the response *)
Call(url) ==
    /\ Len(calls) < MaxCalls
    /\ LET kind == UrlKind(url)
           entry == cache[KeyOf[url]]
           hit == CacheLookup(kind, entry)
           call == [url |-> url, kind |-> kind, found |-> entry,
                    prior |-> {i \in 1..Len(calls) : calls[i].pc = "done"},
                    pc |-> IF IsSome(hit) THEN "done" ELSE "net",
                    net |-> hit = None,
                    outcome |-> <<>>, wrote |-> FALSE,
                    result |-> IF IsSome(hit) THEN Ok(Unwrap(hit)) ELSE <<>>]
       IN  /\ calls' = Append(calls, call)
           /\ netlog' = IF IsSome(hit) THEN netlog ELSE Append(netlog, url)
    /\ UNCHANGED <<cache, appvars, ldvars>>

(* The response of call i arrives *)
NetReturn(i, outcome, fs_ok) ==
    /\ i \in 1..Len(calls)
    /\ calls[i].pc = "net"
    /\ LET key == KeyOf[calls[i].url]
           r == Respond(calls[i].kind, outcome, fs_ok, cache[key])
       IN  /\ cache' = [cache EXCEPT ![key] = r.entry]
           /\ calls' = [calls EXCEPT ![i].pc = "done",
                                     ![i].outcome = outcome,
                                     ![i].wrote = IsOk(outcome) /\ fs_ok,
                                     ![i].result = r.result]
    /\ UNCHANGED <<netlog, appvars, ldvars>>

CallSlots == 1..MaxCalls

----------------------------------------------------------------------------
(* Specifications *)

EmptyCache == [key \in CacheKeys |-> None]

(* No loader run is followed fetch by fetch *)
LoaderIdle ==
    /\ locals = <<>>
    /\ fetches = <<>>

AppInit ==
    /\ \E file \in InitSaved : saved = file /\ app = AppNew(load(file))
    /\ tasks = <<>>
    /\ chan = <<>>
    /\ mainpc = "init"
    /\ nkeys = 0
    /\ lastev = None
    /\ LoaderIdle

GatewayIdle ==
    /\ calls = <<>>
    /\ netlog = <<>>

(* The application with its loaders; the gateway's outcome is each fetch's
   ok flag *)
Init ==
    /\ AppInit
    /\ cache = EmptyCache
    /\ GatewayIdle

Next ==
    \/ MainStart
    \/ \E key \in NavKeys : Input(key)
    \/ Receive
    \/ \E i \in TaskSlots : Send(i)
    \/ \E i \in TaskSlots, ok \in BOOLEAN : FetchList(i, ok)
    \/ \E i \in TaskSlots, ok \in SUBSET (1..ChunkSize) : FetchBatch(i, ok)
    \/ \E i \in TaskSlots, ok \in BOOLEAN, sprite_ok \in BOOLEAN :
           FetchDetail(i, ok, sprite_ok)
    \/ \E i \in TaskSlots, outcomes \in TypeOutcomes : FetchTypes(i, outcomes)
    \/ \E i \in TaskSlots, ok \in SUBSET MoveSlots : FetchMoves(i, ok)

Spec == Init /\ [][Next]_vars


(* The gateway under concurrent callers; the cache directory holds what
   earlier runs of the program left in it *)
GatewayInit ==
    /\ AppInit
    /\ cache \in [CacheKeys -> {None} \cup {Some(b) : b \in Bodies}]
    /\ GatewayIdle

GatewayNext ==
    \/ \E url \in Urls : Call(url)
    \/ \E i \in CallSlots, outcome \in NetOutcomes, fs_ok \in BOOLEAN :
           NetReturn(i, outcome, fs_ok)

GatewaySpec == GatewayInit /\ [][GatewayNext]_vars


----------------------------------------------------------------------------
(* Properties of the fetch gateway (GatewaySpec) *)

(* C5: when a cache entry exists for the URL's key, a JSON fetch makes no
   network request, even when the cached content does not parse; the parse
   failure is what the caller gets. *)
C5_CachedJsonMakesNoRequest ==
    \A i \in 1..Len(calls) :
        (calls[i].kind = "json" /\ IsSome(calls[i].found)) =>
            /\ ~calls[i].net
            /\ ~Decodes(Unwrap(calls[i].found)) => IsErr(calls[i].result)

(* C6: once a cache entry has been written for a key, no later fetch changes
   the content stored under that key. *)
C6_CacheEntryImmutable ==
    [][\A key \in CacheKeys : IsSome(cache[key]) => cache'[key] = cache[key]]_vars

(* C7 as stated: after a fetch of a URL has returned success, a second fetch
   of the same URL returns the same content and makes no network request. *)
C7_SecondFetchFromCache ==
    \A j \in 1..Len(calls) : \A i \in calls[j].prior :
        (calls[i].url = calls[j].url /\ IsOk(calls[i].result)) =>
            /\ ~calls[j].net
            /\ calls[j].result = calls[i].result

(* C7 amended: after a fetch of a URL has returned success, a later fetch of
   the same URL that finds the first fetch's content stored under the URL's
   key returns that content and makes no network request. *)
C7_SecondFetchOfStoredContent ==
    \A j \in 1..Len(calls) : \A i \in calls[j].prior :
        (/\ calls[i].url = calls[j].url
         /\ IsOk(calls[i].result)
         /\ calls[j].found = Some(calls[i].result[2])) =>
            /\ ~calls[j].net
            /\ calls[j].result = calls[i].result

(* A first fetch went to the network, succeeded and stored its content, and
   a second fetch of the URL was then served that content *)
C7_Witness ==
    \E j \in 1..Len(calls) : \E i \in calls[j].prior :
        /\ calls[i].url = calls[j].url
        /\ calls[i].net /\ calls[i].wrote /\ IsOk(calls[i].result)
        /\ calls[j].found = Some(calls[i].result[2])
        /\ ~calls[j].net
        /\ calls[j].result = calls[i].result

(* C8: a fetch that fails at the network layer returns an error and leaves
   every cache entry unchanged; a fetch whose request succeeds but whose cache
   write fails leaves the cache unchanged too and still returns the fetched
   data as a success. *)
C8_FailuresLeaveCache ==
    [][\A i \in 1..Len(calls) :
          (calls[i].pc = "net" /\ calls'[i].pc = "done") =>
              LET c == calls'[i]
              IN  /\ IsErr(c.outcome) => (c.result = c.outcome /\ cache' = cache)
                  /\ (/\ IsOk(c.outcome) /\ ~c.wrote
                      /\ (c.kind = "bytes" \/ Decodes(c.outcome[2]))) =>
                         (c.result = Ok(c.outcome[2]) /\ cache' = cache)]_vars

(* One fetch has failed at the network layer, and another has returned data
   whose cache write failed *)
C8_Witness ==
    \E i, j \in 1..Len(calls) :
        /\ calls[i].pc = "done" /\ calls[i].net /\ IsErr(calls[i].outcome)
        /\ IsErr(calls[i].result)
        /\ calls[j].pc = "done" /\ calls[j].net /\ IsOk(calls[j].outcome)
        /\ ~calls[j].wrote /\ IsOk(calls[j].result)
        /\ cache[KeyOf[calls[j].url]] # Some(calls[j].outcome[2])


----------------------------------------------------------------------------
(* Properties of the application and its loaders (Spec) *)

(* This step is a turn of the event loop on the event at the channel's head *)
Consumes(type) ==
    /\ mainpc = "run" /\ app.running
    /\ chan # <<>> /\ Head(chan).type = type
    /\ chan' = Tail(chan)

(* C1: a detail-loaded event of a superseded load for entity A is discarded:
   the stored detail is never A's while the tracked detail identity is B, and
   a detail group that is Loaded stores the tracked entity's detail. *)
C1_StaleDetailDiscarded ==
    /\ IsSome(app.detail) =>
           app.detail_pokemon_id = Some(Unwrap(app.detail).id)
    /\ app.detail_loading = "Loaded" =>
           /\ IsSome(app.detail)
           /\ app.detail_pokemon_id = Some(Unwrap(app.detail).id)

(* C2: at most one loader per request key (catalog, type table, detail of
   entity X) is running at any time. *)
C2_OneLoaderPerKey ==
    \A i, j \in 1..Len(tasks) :
        (/\ i # j
         /\ tasks[i].kind \in {"list", "types", "detail"}
         /\ tasks[i].kind = tasks[j].kind) => tasks[i].id # tasks[j].id

(* C3: a sprite event for entity X is applied only if the tracked detail
   identity is X when the event is consumed, and changes nothing otherwise;
   stored sprite bytes always belong to the tracked identity. *)
C3_StaleSpriteIgnored ==
    /\ [](IsSome(app.sprite_bytes) =>
             /\ IsSome(app.detail_pokemon_id)
             /\ app.sprite_bytes =
                    Some(SpriteBytes(Unwrap(app.detail_pokemon_id))))
    /\ [][Consumes("SpriteLoaded") =>
             IF app.detail_pokemon_id = Some(Head(chan).arg[1])
             THEN app' = [app EXCEPT !.sprite_bytes = Some(Head(chan).arg[2])]
             ELSE app' = app]_vars

(* The event loop has just consumed the sprite of an entity that is no longer
   the tracked one *)
C3_Witness ==
    /\ IsSome(lastev)
    /\ IsSome(app.detail_pokemon_id)
    /\ Unwrap(app.detail_pokemon_id) # Unwrap(lastev).id
    /\ app.sprite_bytes # Some(SpriteBytes(Unwrap(lastev).id))


(* The event runs the catalog loader can still send from batch k on *)
RECURSIVE BatchRuns(_, _)
BatchRuns(names, k) ==
    IF k > NumChunks(names) THEN {<<>>}
    ELSE LET chunk == Chunk(names, k)
         IN  {(IF BatchOf(chunk, ok) # <<>>
               THEN <<EvPokemonTypesUpdated(BatchOf(chunk, ok))>> ELSE <<>>)
                  \o rest :
                      ok \in SUBSET (1..Len(chunk)),
                      rest \in BatchRuns(names, k + 1)}

(* The event runs a loader task can still send, one per way its remaining
   fetches can end *)
RunsOf(t) ==
    LET ids == [j \in 1..Len(Summaries) |-> Summaries[j].id]
        future ==
            CASE t.pc = "fetch_list" ->
                     {<<EvApiError(<<"Failed to load Pokemon list">>)>>}
                         \cup {<<EvPokemonListLoaded(Summaries)>> \o rest :
                                  rest \in BatchRuns(ids, 1)}
              [] t.pc = "fetch_batch" -> BatchRuns(t.names, t.k)
              [] t.pc = "fetch_detail" ->
                     {DetailRun(t.id, ok, sprite_ok) :
                         ok \in BOOLEAN, sprite_ok \in BOOLEAN}
              [] t.pc = "fetch_types" ->
                     {TypesRun(1, <<>>, outcomes) : outcomes \in TypeOutcomes}
              [] t.pc = "fetch_moves" ->
                     {MovesRun(t.names, ok) : ok \in SUBSET (1..Len(t.names))}
              [] OTHER -> {<<>>}
    IN  {t.out \o run : run \in future}

(* One run for each running task *)
RECURSIVE RunChoices(_)
RunChoices(k) ==
    IF k > Len(tasks) THEN {<<>>}
    ELSE {<<run>> \o rest : run \in RunsOf(tasks[k]), rest \in RunChoices(k + 1)}

(* The interleavings of two event sequences, each kept in its own order *)
RECURSIVE Merges(_, _)
Merges(s, t) ==
    IF s = <<>> THEN {t}
    ELSE IF t = <<>> THEN {s}
    ELSE {<<Head(s)>> \o m : m \in Merges(Tail(s), t)}
             \cup {<<Head(t)>> \o m : m \in Merges(s, Tail(t))}

(* The interleavings of the runs of several loaders *)
RECURSIVE MergeAll(_)
MergeAll(runs) ==
    IF runs = <<>> THEN {<<>>}
    ELSE UNION {Merges(Head(runs), m) : m \in MergeAll(Tail(runs))}

(* The presentation state after the event loop has consumed events *)
RECURSIVE Consumed(_, _)
Consumed(a, events) ==
    IF events = <<>> THEN a
    ELSE Consumed(
             handle_event([app |-> a, spawned |-> <<>>, saved |-> saved,
                           fs_ok |-> TRUE], Head(events)).app,
             Tail(events))

(* C4: with the channel empty and no further key events, for fixed runs of
   the running loaders the presentation state after all their events are
   consumed is the same for every interleaving of the loaders' events. *)
C4_ArrivalOrderIrrelevant ==
    chan = <<>> =>
        \A runs \in RunChoices(1) :
            \A m1, m2 \in MergeAll(runs) :
                Consumed(app, m1) = Consumed(app, m2)

StatusFields ==
    {"list_loading", "detail_loading", "type_chart_loading", "moves_loading"}

(* The event kind that reports success for a resource group *)
SuccessEvent(field) ==
    CASE field = "list_loading" -> "PokemonListLoaded"
      [] field = "detail_loading" -> "PokemonDetailLoaded"
      [] field = "type_chart_loading" -> "TypesLoaded"
      [] field = "moves_loading" -> "MovesLoaded"

(* C9: every change of a resource group's status is Idle or Error to Loading
   on a load request, Loading to Loaded on the group's success event, or
   Loading to Error on an error event; Loaded to Loading happens only with a
   new target. *)
C9_StatusTransitions ==
    [][\A field \in StatusFields :
          app'[field] # app[field] =>
              \/ /\ app[field] \in {"Idle", "Error"}
                 /\ app'[field] = "Loading"
                 /\ mainpc = "init" \/ Consumes("Key")
              \/ /\ app[field] = "Loading"
                 /\ app'[field] = "Loaded"
                 /\ Consumes(SuccessEvent(field))
              \/ /\ app[field] = "Loading"
                 /\ app'[field] = "Error"
                 /\ Consumes("ApiError")
              \/ /\ app[field] = "Loaded"
                 /\ app'[field] = "Loading"
                 /\ Consumes("Key")
                 /\ field \in {"detail_loading", "moves_loading"}
                 /\ app'.detail_pokemon_id # app.detail_pokemon_id]_vars

(* C10: a load request for the catalog or the type table while that group is
   Loaded starts no loader and changes no state, and a Loaded catalog or type
   table stays Loaded. *)
C10_LoadedIsSticky ==
    [][/\ app.list_loading = "Loaded" =>
              /\ start_loading_list(World(TRUE)) = World(TRUE)
              /\ app'.list_loading = "Loaded"
       /\ app.type_chart_loading = "Loaded" =>
              /\ load_types(World(TRUE)) = World(TRUE)
              /\ app'.type_chart_loading = "Loaded"]_vars


(* The messages of the error events the loaders send (app.rs:277-280,
   311, 335-338) *)
ErrorMessages ==
    {<<"Failed to load Pokemon list">>, <<"Failed to load detail">>}
        \cup {<<"Failed to load type", type_names[k]>> : k \in 1..Len(type_names)}

(* C11: consuming an error event sets the banner message and sets to Error
   the status of every resource group (catalog, detail, type table, move
   table) that has a load outstanding at that moment. *)
C11_ErrorMarksOutstanding ==
    \A msg \in ErrorMessages :
        LET after == handle_event(World(TRUE), EvApiError(msg)).app
        IN  /\ after.error_message = Some(msg)
            /\ \A field \in StatusFields :
                   app[field] = "Loading" => after[field] = "Error"


(* This step consumes a result sent by the detail loader of an entity other
   than the tracked one *)
ConsumesStaleDetailResult ==
    /\ mainpc = "run" /\ app.running
    /\ chan # <<>> /\ chan' = Tail(chan)
    /\ Head(chan).from[1] = "detail"
    /\ IsSome(app.detail_pokemon_id)
    /\ app.detail_pokemon_id # Some(Head(chan).from[2])

(* C12: a result of the detail loader of entity A that arrives after the
   tracked detail identity has changed to B is never shown; in particular
   A's error event raises no banner and changes no load status. *)
C12_StaleDetailResultIgnored ==
    [][ConsumesStaleDetailResult =>
          /\ app'.detail = app.detail
          /\ app'.sprite_bytes = app.sprite_bytes
          /\ app'.error_message = app.error_message
          /\ \A field \in StatusFields : app'[field] = app[field]]_vars


(* Keys of every kind handle_key distinguishes: the navigation keys, the
   other quit key, the other screen keys, and keys that edit the roster *)
BannerKeys ==
    NavKeys \cup {KeyCtrl("c"), KeyCode("BackTab"), KeyCode("Left"),
                  KeyCode("Down"), KeyCode("Delete"), KeyCode("Backspace"),
                  KeyChar("1"), KeyChar("a"), KeyChar("d"), KeyChar("n"),
                  KeyChar("g"), KeyChar("/")}

(* C13: while the error banner is set, a key event of any kind clears the
   banner and changes nothing else: no screen change, no quit, no loader
   started, no roster change in memory or on disk. *)
C13_BannerKeyOnlyDismisses ==
    IsSome(app.error_message) =>
        \A key \in BannerKeys, fs_ok \in BOOLEAN :
            handle_event(World(fs_ok), EvKey(key)) =
                [World(fs_ok) EXCEPT !.app.error_message = None]

(* The one key typed so far was consumed after an error event had set the
   banner and the catalog status: the banner is gone, the rest is as the error
   left it *)
C13_Witness ==
    /\ nkeys = 1 /\ chan = <<>>
    /\ app.error_message = None
    /\ app.list_loading = "Error"
    /\ app.running /\ app.screen = "PokemonList"
    /\ tasks = <<>>


----------------------------------------------------------------------------
(* The types-updated merge on its own (MergeSpec): catalogs and payloads are
   drawn from bounded sets and the event loop consumes the payloads *)

(* Pairs of one types-updated payload *)
MaxBatch == 2

(* Entity 7 is in no catalog *)
MergeIds == {1, 2, 7}

MergeTags == {<<"fire">>, <<"grass", "poison">>}

MergeBatches == UNION {[1..n -> MergeIds \X MergeTags] : n \in 1..MaxBatch}

(* Catalogs as a listing-loaded event leaves them: every entry untagged *)
MergeCatalogs ==
    {[j \in 1..Len(ids) |-> PokemonSummary(ids[j])] :
        ids \in {<<>>, <<1>>, <<1, 2>>, <<2, 1>>, <<1, 2, 152>>}}

MergeInit ==
    /\ \E file \in InitSaved, list \in MergeCatalogs :
           /\ saved = file
           /\ app = [AppNew(load(file)) EXCEPT !.pokemon_list = list,
                                               !.list_loading = "Loaded"]
    /\ tasks = <<>>
    /\ chan = <<>>
    /\ mainpc = "run"
    /\ nkeys = 0
    /\ lastev = None
    /\ LoaderIdle
    /\ cache = EmptyCache
    /\ GatewayIdle

(* A catalog loader sends a types-updated event *)
MergeSend(batch) ==
    /\ chan = <<>>
    /\ chan' = <<SentBy("list", 0, EvPokemonTypesUpdated(batch))>>
    /\ UNCHANGED <<app, tasks, saved, mainpc, nkeys, lastev, gwvars, ldvars>>

MergeNext ==
    \/ \E batch \in MergeBatches : MergeSend(batch)
    \/ Receive

MergeSpec == MergeInit /\ [][MergeNext]_vars

(* The ids and names of a catalog, in order *)
Entries(list) == [j \in 1..Len(list) |-> <<list[j].id, list[j].name>>]

(* C14: a types-updated event whose ids are all absent from the catalog
   leaves the state unchanged; applying the same payload twice yields the same
   catalog as applying it once; the event never adds, removes or reorders
   catalog entries (and touches nothing but the catalog). *)
C14_MergeIdempotent ==
    [][Consumes("PokemonTypesUpdated") =>
          LET batch == Head(chan).arg
              twice == handle_event([World(TRUE) EXCEPT !.app = app'],
                                    Head(chan)).app
          IN  /\ (\A k \in 1..Len(batch) :
                     \A j \in 1..Len(app.pokemon_list) :
                         app.pokemon_list[j].id # batch[k][1]) => app' = app
              /\ twice = app'
              /\ Entries(app'.pokemon_list) = Entries(app.pokemon_list)
              /\ [app' EXCEPT !.pokemon_list = app.pokemon_list] = app]_vars

(* The event loop has consumed what was sent: a types-updated event has
   tagged one catalog entry and not another *)
C14_Witness ==
    /\ chan = <<>>
    /\ \E j, k \in 1..Len(app.pokemon_list) :
           /\ app.pokemon_list[j].types # <<>>
           /\ app.pokemon_list[k].types = <<>>


----------------------------------------------------------------------------
(* One loader run followed fetch by fetch.  Nothing consumes the channel,  *)
(* so chan is the sequence of the events the run has sent, and fetches is  *)
(* the sequence of the fetches it has started.                             *)

(* A fetch the run has started: what it asks for, the batch it belongs to
   (0 outside the batches) and how it stands *)
Fetch(what, chunk, status) == [what |-> what, chunk |-> chunk, status |-> status]

FetchStatus(ok) == IF ok THEN "ok" ELSE "err"

(* The locals of a loader's future: the join handles of the current batch
   and its results (app.rs:248, 265), the type records (app.rs:330) and the
   move records (app.rs:359) collected so far *)
NoLocals == [handles |-> <<>>, batch |-> <<>>, infos |-> <<>>, moves |-> <<>>]

(* A detail record with one move reference more than the move-table loader
   takes: names the API does not serve, then g, c, b, a, and last a b *)
ManyMoves ==
    [j \in 1..(MaxMovesLoaded - 4) |-> <<"g">> \o to_string(j)]
        \o <<<<"g">>, <<"c">>, <<"b">>, <<"a">>, <<"a", "b">>>>

ManyMovesDetail == [PokemonDetail(1) EXCEPT !.moves = ManyMoves]

(* The detail records a move-table load is requested for *)
MoveRequests ==
    {PokemonDetail(Catalog[j]) : j \in 1..Len(Catalog)} \cup {ManyMovesDetail}

(* How fetch_move_detail can end: a move the API serves is fetched or not,
   one it does not serve never is *)
MoveOutcomes(name) ==
    IF name \in {<<"a">>, <<"b">>, <<"c">>, <<"g">>, <<"a", "b">>}
    THEN BOOLEAN ELSE {FALSE}

(* The requests that start a loader, each made of a fresh application *)
Requested(a0, file) ==
    LET w0 == [app |-> a0, spawned |-> <<>>, saved |-> file, fs_ok |-> TRUE]
    IN  {start_loading_list(w0), load_types(w0)}
            \cup {load_detail(w0, Catalog[j]) : j \in 1..Len(Catalog)}
            \cup {load_moves_for_pokemon(w0, detail) : detail \in MoveRequests}

LoaderInit ==
    /\ \E file \in InitSaved :
           /\ saved = file
           /\ \E w \in Requested(AppNew(load(file)), file) :
                  /\ app = w.app
                  /\ tasks = w.spawned
    /\ chan = <<>>
    /\ mainpc = "run"
    /\ nkeys = 0
    /\ lastev = None
    /\ locals = NoLocals
    /\ fetches = <<>>
    /\ cache = EmptyCache
    /\ GatewayIdle

(* tx.send of events, one after the other, by the loader *)
LoaderSends(events) ==
    chan' = chan \o [j \in 1..Len(events) |->
                        SentBy(tasks[1].kind, tasks[1].id, events[j])]

(* A catalog loader that reports a failed listing as an empty listing too *)
ListingEventsBoth(ok) ==
    IF ok THEN <<EvPokemonListLoaded(Summaries)>>
    ELSE <<EvPokemonListLoaded(<<>>),
           EvApiError(<<"Failed to load Pokemon list">>)>>

(* What the catalog loader sends when the listing fetch has returned
   (app.rs:224-241, 276-281) *)
ListingEvents(ok) ==
    IF ok THEN <<EvPokemonListLoaded(Summaries)>>
    ELSE <<EvApiError(<<"Failed to load Pokemon list">>)>>

(* Catalog loader: fetch_pokemon_list returns *)
ListFetched(ok) ==
    /\ AtAwait(1, "list", "fetch_list")
    /\ fetches' = Append(fetches, Fetch(<<"list">>, 0, FetchStatus(ok)))
    /\ LoaderSends(ListingEvents(ok))
    /\ SetTask(1, [tasks[1] EXCEPT
                      !.names = IF ok
                                THEN [j \in 1..Len(Summaries) |-> Summaries[j].id]
                                ELSE <<>>,
                      !.pc = IF ok /\ Summaries # <<>>
                             THEN "spawn_batch" ELSE "done"])
    /\ UNCHANGED <<app, saved, mainpc, nkeys, lastev, locals, gwvars>>

(* Catalog loader: one task per member of batch k is spawned, each starting
   its fetch_pokemon_detail (app.rs:247-262) *)
SpawnBatch ==
    /\ AtAwait(1, "list", "spawn_batch")
    /\ LET chunk == Chunk(tasks[1].names, tasks[1].k)
       IN  /\ fetches' = fetches \o
                  [j \in 1..Len(chunk) |->
                      Fetch(<<"detail", chunk[j]>>, tasks[1].k, "pending")]
           /\ locals' = [locals EXCEPT
                            !.handles = [j \in 1..Len(chunk) |-> Len(fetches) + j],
                            !.batch = <<>>]
    /\ SetTask(1, [tasks[1] EXCEPT !.pc = "join_batch"])
    /\ UNCHANGED <<app, chan, saved, mainpc, nkeys, lastev, gwvars>>

(* A spawned member task: its fetch_pokemon_detail returns (app.rs:252-259) *)
MemberReturns(f, ok) ==
    /\ f \in 1..Len(fetches)
    /\ fetches[f].status = "pending"
    /\ fetches' = [fetches EXCEPT ![f].status = FetchStatus(ok)]
    /\ UNCHANGED <<appvars, locals, gwvars>>

(* A join that drops what the batch holds when a member has failed *)
join_handle_or_reset(batch, id, ok) ==
    IF ok THEN Append(batch, <<id, TypesOf(id)>>) ELSE <<>>

(* The batch after the await of one handle (app.rs:266-270) *)
join_handle(batch, id, ok) ==
    IF ok THEN Append(batch, <<id, TypesOf(id)>>) ELSE batch

(* Catalog loader: handle.await of the next handle, whose task has ended *)
JoinHandle ==
    /\ AtAwait(1, "list", "join_batch")
    /\ locals.handles # <<>>
    /\ LET f == fetches[Head(locals.handles)]
       IN  /\ f.status # "pending"
           /\ locals' = [locals EXCEPT
                            !.handles = Tail(@),
                            !.batch = join_handle(@, f.what[2], f.status = "ok")]
    /\ UNCHANGED <<appvars, fetches, gwvars>>

(* A catalog loader that sends every batch, collected or empty *)
BatchEventsAlways(batch) == <<EvPokemonTypesUpdated(batch)>>

(* What the catalog loader sends once a batch is collected (app.rs:271-273) *)
BatchEvents(batch) ==
    IF batch # <<>> THEN <<EvPokemonTypesUpdated(batch)>> ELSE <<>>

(* Catalog loader: every handle of batch k is joined; the batch is sent and
   the loop goes on to the next chunk *)
SendBatch ==
    /\ AtAwait(1, "list", "join_batch")
    /\ locals.handles = <<>>
    /\ LoaderSends(BatchEvents(locals.batch))
    /\ SetTask(1, [tasks[1] EXCEPT
                      !.k = @ + 1,
                      !.pc = IF tasks[1].k >= NumChunks(tasks[1].names)
                             THEN "done" ELSE "spawn_batch"])
    /\ UNCHANGED <<app, saved, mainpc, nkeys, lastev, ldvars, gwvars>>

(* Detail loader: fetch_pokemon_detail returns (app.rs:300-302, 310-312) *)
DetailFetched(ok) ==
    /\ AtAwait(1, "detail", "fetch_detail")
    /\ fetches' = Append(fetches,
                         Fetch(<<"detail", tasks[1].id>>, 0, FetchStatus(ok)))
    /\ IF ok /\ IsSome(PokemonDetail(tasks[1].id).sprites.front_default)
       THEN /\ chan' = chan
            /\ SetTask(1, [tasks[1] EXCEPT !.pc = "fetch_sprite"])
       ELSE /\ LoaderSends(DetailRun(tasks[1].id, ok, FALSE))
            /\ SetTask(1, [tasks[1] EXCEPT !.pc = "done"])
    /\ UNCHANGED <<app, saved, mainpc, nkeys, lastev, locals, gwvars>>

(* Detail loader: fetch_sprite_bytes returns (app.rs:303-308) *)
SpriteFetched(ok) ==
    /\ AtAwait(1, "detail", "fetch_sprite")
    /\ fetches' = Append(fetches,
                         Fetch(<<"sprite", tasks[1].id>>, 0, FetchStatus(ok)))
    /\ LoaderSends(DetailRun(tasks[1].id, TRUE, ok))
    /\ SetTask(1, [tasks[1] EXCEPT !.pc = "done"])
    /\ UNCHANGED <<app, saved, mainpc, nkeys, lastev, locals, gwvars>>

(* A type-table loader that skips a record whose fetch failed *)
type_fetched_or_skipped(k, infos, ok) ==
    LET pushed == IF ok THEN Append(infos, TypeInfo(type_names[k])) ELSE infos
    IN  IF k >= Len(type_names)
        THEN [infos |-> pushed, pc |-> "done", events |-> <<EvTypesLoaded(pushed)>>]
        ELSE [infos |-> pushed, pc |-> "fetch_types", events |-> <<>>]

(* The type-table loader after its k-th fetch_type_info: the records it
   holds, what it sends and whether its loop goes on (app.rs:331-343) *)
type_fetched(k, infos, ok) ==
    IF ~ok
    THEN [infos |-> infos, pc |-> "done",
          events |-> <<EvApiError(<<"Failed to load type", type_names[k]>>)>>]
    ELSE LET pushed == Append(infos, TypeInfo(type_names[k]))
         IN  IF k >= Len(type_names)
             THEN [infos |-> pushed, pc |-> "done",
                   events |-> <<EvTypesLoaded(pushed)>>]
             ELSE [infos |-> pushed, pc |-> "fetch_types", events |-> <<>>]

(* Type-table loader: its k-th fetch_type_info returns *)
TypeFetched(ok) ==
    /\ AtAwait(1, "types", "fetch_types")
    /\ tasks[1].k <= Len(type_names)
    /\ LET after == type_fetched(tasks[1].k, locals.infos, ok)
       IN  /\ fetches' = Append(fetches,
                  Fetch(<<"type", type_names[tasks[1].k]>>, 0, FetchStatus(ok)))
           /\ locals' = [locals EXCEPT !.infos = after.infos]
           /\ LoaderSends(after.events)
           /\ SetTask(1, [tasks[1] EXCEPT !.k = @ + 1, !.pc = after.pc])
    /\ UNCHANGED <<app, saved, mainpc, nkeys, lastev, gwvars>>

(* Move-table loader: its k-th fetch_move returns (app.rs:360-365) *)
MoveFetched(ok) ==
    /\ AtAwait(1, "moves", "fetch_moves")
    /\ tasks[1].k <= Len(tasks[1].names)
    /\ ok \in MoveOutcomes(tasks[1].names[tasks[1].k])
    /\ fetches' = Append(fetches,
           Fetch(<<"move", tasks[1].names[tasks[1].k]>>, 0, FetchStatus(ok)))
    /\ locals' = [locals EXCEPT
                     !.moves = IF ok
                               THEN Append(@, MoveDetailOf(tasks[1].names[tasks[1].k]))
                               ELSE @]
    /\ SetTask(1, [tasks[1] EXCEPT !.k = @ + 1])
    /\ UNCHANGED <<app, chan, saved, mainpc, nkeys, lastev, gwvars>>

(* Move-table loader: the loop is over, the sorted table is sent
   (app.rs:366-373) *)
MovesSend ==
    /\ AtAwait(1, "moves", "fetch_moves")
    /\ tasks[1].k > Len(tasks[1].names)
    /\ LoaderSends(<<EvMovesLoaded(SortMoves(locals.moves))>>)
    /\ SetTask(1, [tasks[1] EXCEPT !.pc = "done"])
    /\ UNCHANGED <<app, saved, mainpc, nkeys, lastev, ldvars, gwvars>>

(* The fetches a run can have started: the listing and one per entry *)
FetchSlots == 1..(Len(Catalog) + 1)

LoaderNext ==
    \/ \E ok \in BOOLEAN : ListFetched(ok)
    \/ SpawnBatch
    \/ \E f \in FetchSlots, ok \in BOOLEAN : MemberReturns(f, ok)
    \/ JoinHandle
    \/ SendBatch
    \/ \E ok \in BOOLEAN : DetailFetched(ok)
    \/ \E ok \in BOOLEAN : SpriteFetched(ok)
    \/ \E ok \in BOOLEAN : TypeFetched(ok)
    \/ \E ok \in BOOLEAN : MoveFetched(ok)
    \/ MovesSend

LoaderSpec == LoaderInit /\ [][LoaderNext]_vars


----------------------------------------------------------------------------
(* Claims about one loader run (LoaderSpec) *)

(* The events of a type the run has sent, in sending order *)
SentOf(type) == Retain(chan, LAMBDA e : e.type = type)

(* The fetches of batch k, in starting order *)
FetchesOf(k) == Retain(fetches, LAMBDA f : f.chunk = k)

(* The catalog loader has joined every handle of batch k, whose member
   fetches all failed *)
BatchAllFailed(k) ==
    /\ AtAwait(1, "list", "join_batch")
    /\ tasks[1].k = k
    /\ locals.handles = <<>>
    /\ \A j \in 1..Len(FetchesOf(k)) : FetchesOf(k)[j].status = "err"

(* C15: the catalog loader never sends a types-updated event with an empty
   payload; when every member fetch of a batch failed, the loader's next
   step sends nothing and takes it to the next batch (or to its end after
   the last batch). *)
C15_NoEmptyBatchEvent ==
    /\ [](\A j \in 1..Len(chan) :
              chan[j].type = "PokemonTypesUpdated" => chan[j].arg # <<>>)
    /\ [][\A k \in 1..NumChunks(Catalog) :
              BatchAllFailed(k) /\ tasks' # tasks =>
                  /\ chan' = chan
                  /\ IF k >= NumChunks(Catalog)
                     THEN tasks' = <<>>
                     ELSE /\ tasks'[1].pc = "spawn_batch"
                          /\ tasks'[1].k = k + 1]_vars

(* The first batch failed whole, no event was sent for it, and the fetches
   of the second batch have started *)
C15_Witness ==
    /\ FetchesOf(1) # <<>>
    /\ \A j \in 1..Len(FetchesOf(1)) : FetchesOf(1)[j].status = "err"
    /\ FetchesOf(2) # <<>>
    /\ SentOf("PokemonTypesUpdated") = <<>>
    /\ SentOf("PokemonListLoaded") # <<>>


(* The run is the catalog loader's and its listing fetch has returned *)
ListingReturned == fetches # <<>> /\ fetches[1].what = <<"list">>

(* C16: in a run of the catalog loader nothing is sent before the listing
   fetch returns; once it has succeeded the channel holds exactly one
   listing-loaded event, in first place, whose summaries all have empty
   tags, followed by types-updated events only; once it has failed the
   channel holds one error event and nothing else, and the run is over. *)
C16_ListingFirst ==
    /\ AtAwait(1, "list", "fetch_list") => chan = <<>>
    /\ ListingReturned /\ fetches[1].status = "ok" =>
           /\ Len(SentOf("PokemonListLoaded")) = 1
           /\ chan[1].type = "PokemonListLoaded"
           /\ Len(chan[1].arg) = Len(Catalog)
           /\ \A j \in 1..Len(chan[1].arg) : chan[1].arg[j].types = <<>>
           /\ \A j \in 2..Len(chan) : chan[j].type = "PokemonTypesUpdated"
    /\ ListingReturned /\ fetches[1].status = "err" =>
           /\ Len(chan) = 1
           /\ chan[1].type = "ApiError"
           /\ tasks = <<>>

(* A finished run whose listing fetch succeeded and which sent a
   types-updated event for each of its batches *)
C16_Witness ==
    /\ tasks = <<>>
    /\ ListingReturned
    /\ fetches[1].status = "ok"
    /\ Len(SentOf("PokemonTypesUpdated")) = NumChunks(Catalog)


(* The (id, tags) pairs of the members of batch k whose fetch succeeded, in
   the order the fetches were started, which is the listing's *)
Succeeded(k) ==
    LET hits == Retain(FetchesOf(k), LAMBDA f : f.status = "ok")
    IN  [j \in 1..Len(hits) |-> <<hits[j].what[2], TypesOf(hits[j].what[2])>>]

(* The payloads due for batches 1..k, in batch order *)
RECURSIVE PayloadsUpTo(_)
PayloadsUpTo(k) ==
    IF k = 0 THEN <<>>
    ELSE PayloadsUpTo(k - 1) \o (IF Succeeded(k) # <<>> THEN <<Succeeded(k)>> ELSE <<>>)

(* The number of batches the catalog loader is through with *)
BatchesSent == IF tasks = <<>> THEN NumChunks(Catalog) ELSE tasks[1].k - 1

(* C17: after a successful listing fetch, the payloads of the types-updated
   events sent so far are, in batch order, the (id, tags) pairs of the
   succeeded members of each finished batch in listing order, batches
   without a success left out; every finished batch has fetched each of its
   members, whatever failed before. *)
C17_BatchPayloads ==
    ListingReturned /\ fetches[1].status = "ok" =>
        /\ [j \in 1..Len(SentOf("PokemonTypesUpdated")) |->
               SentOf("PokemonTypesUpdated")[j].arg] = PayloadsUpTo(BatchesSent)
        /\ \A k \in 1..BatchesSent :
               [j \in 1..Len(FetchesOf(k)) |-> FetchesOf(k)[j].what[2]]
                   = Chunk(Catalog, k)

(* A finished run in which the first member of the first batch failed and
   every other member succeeded: two events, the first with one pair *)
C17_Witness ==
    /\ tasks = <<>>
    /\ ListingReturned
    /\ Len(FetchesOf(1)) > 1
    /\ FetchesOf(1)[1].status = "err"
    /\ Len(Succeeded(1)) = Len(FetchesOf(1)) - 1
    /\ Len(SentOf("PokemonTypesUpdated")) = NumChunks(Catalog)
    /\ Len(SentOf("PokemonTypesUpdated")[1].arg) = Len(FetchesOf(1)) - 1


(* The fetches that have been started and have not returned *)
InFlight == {f \in 1..Len(fetches) : fetches[f].status = "pending"}

(* C18: within a catalog loader run at most ChunkSize (30 in the source)
   enrichment fetches are in flight; once a fetch of batch k+1 has started,
   every fetch of batch k has returned and the payloads due for batches
   1..k have been sent. *)
C18_BatchBarrier ==
    /\ Cardinality(InFlight) <= ChunkSize
    /\ \A k \in 1..NumChunks(Catalog) :
           FetchesOf(k + 1) # <<>> =>
               /\ \A j \in 1..Len(FetchesOf(k)) : FetchesOf(k)[j].status # "pending"
               /\ Len(SentOf("PokemonTypesUpdated")) >= Len(PayloadsUpTo(k))
               /\ \A j \in 1..Len(PayloadsUpTo(k)) :
                      SentOf("PokemonTypesUpdated")[j].arg = PayloadsUpTo(k)[j]

(* A fetch of the second batch is in flight after a first batch of
   ChunkSize fetches, one of them successful, whose event has been sent *)
C18_Witness ==
    /\ Len(FetchesOf(1)) = ChunkSize
    /\ Succeeded(1) # <<>>
    /\ \E f \in InFlight : fetches[f].chunk = 2
    /\ SentOf("PokemonTypesUpdated") # <<>>


(* The run is a detail loader's and its detail fetch has returned *)
DetailReturned ==
    /\ fetches # <<>>
    /\ fetches[1].what[1] = "detail"
    /\ fetches[1].chunk = 0

(* The types of the events the run has sent, in sending order *)
SentTypes == [j \in 1..Len(chan) |-> chan[j].type]

(* C19: a detail loader sends nothing until its run is over.  A run whose
   detail fetch failed has sent one error event and nothing else, and has
   fetched no sprite.  A run whose detail fetch succeeded has sent exactly
   one detail-loaded event, last; before it an asset-loaded event when the
   record names a sprite and the sprite fetch succeeded, and nothing at all
   when the record names no sprite or the sprite fetch failed. *)
C19_DetailRunEvents ==
    /\ tasks # <<>> /\ tasks[1].kind = "detail" => chan = <<>>
    /\ DetailReturned =>
           LET id == fetches[1].what[2]
               named == IsSome(PokemonDetail(id).sprites.front_default)
           IN  /\ fetches[1].status = "err" =>
                      /\ tasks = <<>>
                      /\ Len(fetches) = 1
                      /\ SentTypes = <<"ApiError">>
               /\ fetches[1].status = "ok" /\ tasks = <<>> =>
                      /\ Len(fetches) = (IF named THEN 2 ELSE 1)
                      /\ IF named /\ fetches[2].status = "ok"
                         THEN /\ SentTypes = <<"SpriteLoaded", "PokemonDetailLoaded">>
                              /\ chan[1].arg = <<id, SpriteBytes(id)>>
                         ELSE SentTypes = <<"PokemonDetailLoaded">>
                      /\ chan[Len(chan)].arg = PokemonDetail(id)

(* A finished run whose detail fetch and sprite fetch both succeeded *)
C19_Witness ==
    /\ tasks = <<>>
    /\ DetailReturned
    /\ Len(fetches) = 2
    /\ fetches[1].status = "ok"
    /\ fetches[2].status = "ok"
    /\ Len(chan) = 2


(* The run is the type-table loader's and has started a fetch *)
TypesStarted == fetches # <<>> /\ fetches[1].what[1] = "type"

(* C20: a type-table loader fetches the names of type_names in their order,
   one after the other; it sends nothing while it runs; a failed fetch is
   its last, and the run then ends having sent one error event and no
   types-loaded event; a run ended without failure has made all the fetches
   and sent one types-loaded event with the records of type_names in
   order. *)
C20_TypesRunEvents ==
    /\ tasks # <<>> /\ tasks[1].kind = "types" => chan = <<>>
    /\ TypesStarted =>
           /\ Len(fetches) <= Len(type_names)
           /\ \A j \in 1..Len(fetches) :
                  /\ fetches[j].what = <<"type", type_names[j]>>
                  /\ fetches[j].status = "err" => j = Len(fetches)
           /\ fetches[Len(fetches)].status = "err" =>
                  /\ tasks = <<>>
                  /\ SentTypes = <<"ApiError">>
                  /\ chan[1].arg = <<"Failed to load type", type_names[Len(fetches)]>>
           /\ tasks = <<>> /\ fetches[Len(fetches)].status = "ok" =>
                  /\ Len(fetches) = Len(type_names)
                  /\ SentTypes = <<"TypesLoaded">>
                  /\ Len(chan[1].arg) = 18
                  /\ chan[1].arg = [j \in 1..Len(type_names) |-> TypeInfo(type_names[j])]

(* A finished run whose seventh fetch failed after six successes *)
C20_Witness ==
    /\ tasks = <<>>
    /\ TypesStarted
    /\ Len(fetches) = 7
    /\ fetches[7].status = "err"
    /\ Len(chan) = 1


(* The run is a move-table loader's *)
MovesRunning == tasks # <<>> /\ tasks[1].kind = "moves"
MovesEnded == tasks = <<>> /\ chan # <<>> /\ chan[1].from[1] = "moves"

(* The names the run has fetched so far, and those it fetched with success *)
FetchedNames == [j \in 1..Len(fetches) |-> fetches[j].what[2]]
FetchedMoves ==
    {MoveDetailOf(fetches[j].what[2]) :
         j \in {i \in 1..Len(fetches) : fetches[i].status = "ok"}}

(* moves is in the order of the table: power descending, a missing power
   counting as 0, and name ascending among equal powers *)
InTableOrder(moves) ==
    \A i, j \in 1..Len(moves) :
        i < j =>
            LET p == IF moves[i].power = None THEN 0 ELSE moves[i].power[1]
                q == IF moves[j].power = None THEN 0 ELSE moves[j].power[1]
            IN  \/ p > q
                \/ p = q /\ StrLess(moves[i].name, moves[j].name)

(* C21: a move-table loader fetches, in order, the first 50 move references
   of the detail record it was requested for and no other; it sends nothing
   while it runs and never an error event; it ends having sent one
   moves-loaded event that holds each successfully fetched move once, in
   the order of the table. *)
C21_MovesRunEvents ==
    /\ MovesRunning =>
           /\ chan = <<>>
           /\ \E detail \in MoveRequests :
                  FetchedNames = Take(Take(detail.moves, 50), Len(fetches))
    /\ MovesEnded =>
           /\ \E detail \in MoveRequests : FetchedNames = Take(detail.moves, 50)
           /\ SentTypes = <<"MovesLoaded">>
           /\ Len(chan[1].arg) = Cardinality(FetchedMoves)
           /\ {chan[1].arg[j] : j \in 1..Len(chan[1].arg)} = FetchedMoves
           /\ InTableOrder(chan[1].arg)

(* A finished run for a record of 51 references: 50 fetches, the unserved
   names and b dropped, and c (fetched before a), a and g in the table *)
C21_Witness ==
    /\ MovesEnded
    /\ Len(fetches) = 50
    /\ [j \in 1..Len(chan[1].arg) |-> chan[1].arg[j].name]
           = <<<<"a">>, <<"c">>, <<"g">>>>


----------------------------------------------------------------------------
(* Claims about navigation, the roster and the channel (Spec) *)

(* The status field and the loader kind of the resource group a screen
   shows; the team screen shows none *)
GroupOf(screen) ==
    CASE screen = "PokemonList" -> <<"list_loading", "list">>
      [] screen = "PokemonDetail" -> <<"detail_loading", "detail">>
      [] screen = "TypeChart" -> <<"type_chart_loading", "types">>
      [] OTHER -> <<>>

(* This step handles a key, with no banner and no modal in the way, that
   makes another screen the active one *)
KeyActivatesScreen ==
    /\ Consumes("Key")
    /\ app.error_message = None
    /\ app.modal = None
    /\ app'.screen # app.screen

(* C22: a key that makes a screen active while the status of that screen's
   resource group is not Loaded starts a loader of that group in the same
   step. *)
C22_ScreenEntryStartsLoader ==
    [][KeyActivatesScreen /\ GroupOf(app'.screen) # <<>>
           /\ app[GroupOf(app'.screen)[1]] # "Loaded" =>
              /\ Len(tasks') = Len(tasks) + 1
              /\ tasks'[Len(tasks')].kind = GroupOf(app'.screen)[2]]_vars


(* C23: the tags of a catalog entry are written once: a types-updated event
   that carries an entity's tags finds the tags of that entity's entry
   empty. *)
C23_TagsWrittenOnce ==
    [][Consumes("PokemonTypesUpdated") =>
          \A j \in 1..Len(Head(chan).arg), k \in 1..Len(app.pokemon_list) :
              app.pokemon_list[k].id = Head(chan).arg[j][1] =>
                  app.pokemon_list[k].types = <<>>]_vars


(* C24: the channel is a queue and the event loop its only consumer: a
   step leaves the channel as it is, or puts one event behind those it
   holds, or takes the event at its head and applies that event to the
   state; once the loop runs the state changes in no other step.  So the
   events of one producer are applied in the order it sent them, each
   once. *)
C24_ChannelFifo ==
    [][/\ \/ chan' = chan
          \/ /\ Len(chan') = Len(chan) + 1
             /\ SubSeq(chan', 1, Len(chan)) = chan
          \/ /\ chan # <<>>
             /\ chan' = Tail(chan)
             /\ \E fs_ok \in BOOLEAN :
                    app' = handle_event(World(fs_ok), Head(chan)).app
       /\ mainpc = "run" /\ app' # app => chan # <<>> /\ chan' = Tail(chan)]_vars

(* The loop has applied the sprite event of a detail loader while the
   detail-loaded event the same loader sent after it waits at the head *)
C24_Witness ==
    /\ IsSome(lastev)
    /\ app.detail = None
    /\ app.sprite_bytes = Some(SpriteBytes(Unwrap(lastev).id))
    /\ chan # <<>>
    /\ Head(chan).type = "PokemonDetailLoaded"
    /\ Head(chan).from = <<"detail", Unwrap(lastev).id>>


----------------------------------------------------------------------------
(* The event loop fed typed keys from prepared states (KeySpec).  A prepared *)
(* state is what the handlers make of a sequence of events the producers   *)
(* can send, every loader the sequence starts having delivered its events. *)

(* Keys a prepared state may be followed by *)
MaxTyped == 2

(* The application as main leaves it to the event loop (main.rs:19-23) *)
StartUp(file) ==
    start_loading_list([app |-> AppNew(load(file)), spawned |-> <<>>,
                        saved |-> file, fs_ok |-> TRUE])

(* app.handle_event applied to each event of a sequence in turn *)
RECURSIVE Replay(_, _)
Replay(w, events) ==
    IF events = <<>> THEN w
    ELSE Replay(handle_event(w, Head(events)), Tail(events))

Keys(codes) == [j \in 1..Len(codes) |-> EvKey(codes[j])]

Repeat(key, n) == [j \in 1..n |-> EvKey(key)]

(* What a catalog loader sends when every fetch succeeds *)
CatalogLoaded ==
    <<EvPokemonListLoaded(Summaries)>> \o
    [k \in 1..NumChunks(Catalog) |->
        EvPokemonTypesUpdated(BatchOf(Chunk(Catalog, k), 1..ChunkSize))]

(* The detail screen of the first entry, opened from the list *)
DetailOpened ==
    CatalogLoaded \o Keys(<<KeyCode("Enter")>>) \o DetailRun(Catalog[1], TRUE, TRUE)

(* The move picker of the first member, its move table loaded *)
MovesOpened ==
    Keys(<<KeyChar("4"), KeyCode("Enter")>>)
        \o MovesRun(Take(MovesOf(Catalog[1]), MaxMovesLoaded), MoveSlots)

Scenarios ==
    {CatalogLoaded,
     CatalogLoaded \o Keys(<<KeyChar("/")>>),
     CatalogLoaded \o Keys(<<KeyChar("/"), KeyChar("b")>>),
     CatalogLoaded \o Keys(<<KeyChar("1")>>),
     DetailOpened,
     CatalogLoaded \o Keys(<<KeyCode("Down"), KeyCode("Enter")>>)
         \o DetailRun(Catalog[2], TRUE, TRUE),
     DetailOpened \o Repeat(KeyChar("a"), MaxTeamMembers - 2),
     DetailOpened \o Repeat(KeyChar("a"), MaxTeamMembers - 1),
     CatalogLoaded \o Keys(<<KeyChar("4")>>),
     DetailOpened \o Keys(<<KeyChar("4"), KeyChar("n")>>),
     DetailOpened \o Keys(<<KeyChar("4"), KeyCode("Down"), KeyCode("Enter")>>),
     DetailOpened \o MovesOpened,
     DetailOpened \o MovesOpened \o Repeat(KeyCode("Enter"), MaxMemberMoves - 1),
     DetailOpened \o MovesOpened \o Repeat(KeyCode("Enter"), MaxMemberMoves)
         \o Keys(<<KeyCode("Enter")>>)
         \o MovesRun(Take(MovesOf(Catalog[1]), MaxMovesLoaded), MoveSlots),
     CatalogLoaded \o Keys(<<KeyCode("Tab")>>)
         \o DetailRun(Catalog[1], FALSE, FALSE),
     CatalogLoaded
         \o Keys(<<KeyChar("/"), KeyChar("b"), KeyChar("a"), KeyCode("Enter"),
                   KeyCode("Enter")>>)
         \o DetailRun(Catalog[2], TRUE, TRUE)
         \o Keys(<<KeyCode("Esc"), KeyChar("/"), KeyCode("Esc")>>),
     CatalogLoaded \o Keys(<<KeyCode("Down"), KeyCode("Enter")>>)
         \o DetailRun(Catalog[2], TRUE, TRUE)
         \o Keys(<<KeyChar("a"), KeyCode("Left")>>)
         \o DetailRun(Catalog[1], TRUE, TRUE)
         \o MovesOpened
         \o Keys(<<KeyCode("Esc")>>),
     DetailOpened \o Keys(<<KeyChar("4")>>) \o Repeat(KeyCode("Down"), LastTeamSlot)}

KeyInit ==
    /\ \E file \in InitSaved :
           \E events \in Scenarios :
               /\ app = Replay(StartUp(file), events).app
               /\ saved = Replay(StartUp(file), events).saved
               /\ tasks = <<>>
    /\ chan = <<>>
    /\ mainpc = "run"
    /\ nkeys = 0
    /\ lastev = None
    /\ LoaderIdle
    /\ cache = EmptyCache
    /\ GatewayIdle

(* The keys the handlers tell apart, and b for any other character *)
AllKeys ==
    BannerKeys \cup {KeyCode("Up"), KeyChar("c"), KeyChar("b"), KeyChar("2"),
                     KeyChar("j"), KeyChar("l")}

(* Input thread: a key press becomes an event (event.rs:34-43) *)
Type(key) ==
    /\ app.running
    /\ Len(chan) < MaxChan
    /\ nkeys < MaxTyped
    /\ nkeys' = nkeys + 1
    /\ chan' = Append(chan, SentBy("input", 0, EvKey(key)))
    /\ UNCHANGED <<app, tasks, saved, mainpc, lastev, gwvars, ldvars>>

KeyNext ==
    \/ \E key \in AllKeys : Type(key)
    \/ Receive
    \/ \E i \in TaskSlots : Send(i)
    \/ \E i \in TaskSlots, ok \in BOOLEAN : FetchList(i, ok)
    \/ \E i \in TaskSlots, ok \in SUBSET (1..ChunkSize) : FetchBatch(i, ok)
    \/ \E i \in TaskSlots, ok \in BOOLEAN, sprite_ok \in BOOLEAN :
           FetchDetail(i, ok, sprite_ok)
    \/ \E i \in TaskSlots, outcomes \in TypeOutcomes : FetchTypes(i, outcomes)
    \/ \E i \in TaskSlots, ok \in SUBSET MoveSlots : FetchMoves(i, ok)

KeySpec == KeyInit /\ [][KeyNext]_vars


----------------------------------------------------------------------------
(* Claims about key handling (KeySpec) *)

(* The key at the head of the channel is a quit key: q outside search mode,
   or c with the control modifier *)
QuitKeyAtHead ==
    LET key == Head(chan).arg
    IN  /\ key.code = "Char"
        /\ \/ key.ch = "q" /\ ~app.search_mode
           \/ key.ch = "c" /\ key.ctrl

(* C26: running goes from true to false only in a step that handles a quit
   key while no banner is shown and no modal is open, and never goes back
   to true. *)
C26_OnlyQuitStops ==
    /\ [][app.running /\ ~app'.running =>
              /\ Consumes("Key")
              /\ QuitKeyAtHead
              /\ app.error_message = None
              /\ app.modal = None]_vars
    /\ [][~app.running => ~app'.running]_vars

(* Control-c typed in search mode has stopped the application *)
C26_Witness ==
    /\ ~app.running
    /\ app.search_mode
    /\ chan = <<>>


(* The event loop hands the key with this code to handle_detail_key: the key
   is at the head of the channel, no banner is shown, no modal is open and
   the detail screen is up with a list index *)
DetailKey(code) ==
    /\ Consumes("Key")
    /\ IsCode(Head(chan).arg, code)
    /\ ~Head(chan).arg.ctrl
    /\ app.error_message = None
    /\ app.modal = None
    /\ app.screen = "PokemonDetail"
    /\ IsSome(app.detail_list_index)

(* The step requests the detail of the entity at 0-based position i of the
   filtered list and makes it the tracked entity at that position *)
Navigates(i) ==
    LET p == filtered_list(app)[i + 1]
    IN  /\ tasks' = Append(tasks, DetailTask(p.id))
        /\ app'.detail_list_index = Some(i)
        /\ app'.detail_pokemon_id = Some(p.id)

(* C27: on the detail screen with list index i, Right with i not the last
   position of the filtered list requests the entity at i + 1 and tracks it
   there, Left with i > 0 does so for i - 1, and Right at the last position
   and Left at position 0 change nothing. *)
C27_DetailArrows ==
    [][LET i == Unwrap(app.detail_list_index)
           last == saturating_sub(Len(filtered_list(app)), 1)
       IN  /\ DetailKey("Right") =>
                 IF i < last THEN Navigates(i + 1)
                 ELSE app' = app /\ tasks' = tasks
           /\ DetailKey("Left") =>
                 IF i > 0 /\ i - 1 < Len(filtered_list(app))
                 THEN Navigates(i - 1)
                 ELSE app' = app /\ tasks' = tasks]_vars


(* C28: every team holds at most 6 members and every member at most 4
   moves. *)
C28_RosterLimits ==
    \A t \in 1..Len(app.team_data.teams) :
        LET members == app.team_data.teams[t].members
        IN  /\ Len(members) <= MaxTeamMembers
            /\ \A m \in 1..Len(members) : Len(members[m].moves) <= MaxMemberMoves

(* Keys have been handled on the detail screen while the current team is
   full *)
C28_Witness ==
    /\ nkeys = MaxTyped /\ chan = <<>>
    /\ app.screen = "PokemonDetail" /\ IsSome(app.detail)
    /\ Len(current_team(app).members) = MaxTeamMembers


(* C29: every step that changes the roster saves it in that step, so after
   every event the roster file holds the roster the application holds. *)
C29_SavedIsRoster ==
    saved = Some(app.team_data)


----------------------------------------------------------------------------
(* The cache key of a URL (client.rs:54-58), as a function of the URLs the
   accessors of endpoints.rs build and of the asset URLs detail records
   carry (CacheKeySpec) *)

(* The 18 type names of type_names, character by character *)
TypeNameChars ==
    <<<<"n", "o", "r", "m", "a", "l">>,
      <<"f", "i", "r", "e">>,
      <<"w", "a", "t", "e", "r">>,
      <<"e", "l", "e", "c", "t", "r", "i", "c">>,
      <<"g", "r", "a", "s", "s">>,
      <<"i", "c", "e">>,
      <<"f", "i", "g", "h", "t", "i", "n", "g">>,
      <<"p", "o", "i", "s", "o", "n">>,
      <<"g", "r", "o", "u", "n", "d">>,
      <<"f", "l", "y", "i", "n", "g">>,
      <<"p", "s", "y", "c", "h", "i", "c">>,
      <<"b", "u", "g">>,
      <<"r", "o", "c", "k">>,
      <<"g", "h", "o", "s", "t">>,
      <<"d", "r", "a", "g", "o", "n">>,
      <<"d", "a", "r", "k">>,
      <<"s", "t", "e", "e", "l">>,
      <<"f", "a", "i", "r", "y">>>>

HttpsScheme == <<"h", "t", "t", "p", "s", ":", "/", "/">>
HttpScheme == <<"h", "t", "t", "p", ":", "/", "/">>

(* The URL fetch_pokemon_list builds (endpoints.rs:11) *)
ListUrl ==
    BASE_URL \o <<"/", "p", "o", "k", "e", "m", "o", "n", "?", "l", "i", "m", "i", "t", "=", "1", "0", "0", "0", "0">>

(* The URL fetch_type_info builds (endpoints.rs:21) *)
TypeUrl(name) == BASE_URL \o <<"/", "t", "y", "p", "e", "/">> \o name

(* The URL fetch_move_detail builds (endpoints.rs:26) *)
MoveUrl(name) == BASE_URL \o <<"/", "m", "o", "v", "e", "/">> \o name

(* Move names as the API gives them: lower-case words joined by hyphens *)
MoveNames ==
    {<<"a">>, <<"b">>, <<"a", "b">>, <<"a", "-", "b">>, <<"g", "1">>,
     <<"n", "o", "r", "m", "a", "l">>, <<"f", "i", "r", "e">>, <<"l", "i", "m", "i", "t", "=", "1", "0", "0", "0", "0">>}

(* The URLs the four JSON accessors build *)
AccessorUrls ==
    {ListUrl}
        \cup {DetailUrl(Catalog[j]) : j \in 1..Len(Catalog)}
        \cup {DetailUrl(10000)}
        \cup {TypeUrl(TypeNameChars[j]) : j \in 1..Len(TypeNameChars)}
        \cup {MoveUrl(name) : name \in MoveNames}

(* An asset URL that goes through an image proxy: the address of the
   original is its query *)
ProxiedSpriteUrl(id) ==
    HttpsScheme \o <<"i", "m", "g", ".", "c", "o", "/", "?", "u", "=">> \o SpriteUrl(id)

(* The asset URLs fetch_sprite_bytes is handed (endpoints.rs:30-32) *)
AssetUrls ==
    {SpriteUrl(Catalog[j]) : j \in 1..Len(Catalog)}
        \cup {HttpsScheme \o SubSeq(SpriteUrl(1), Len(HttpScheme) + 1,
                                    Len(SpriteUrl(1)))}
        \cup {ProxiedSpriteUrl(1)}

KeyedUrls == AccessorUrls \cup AssetUrls

(* The number of key computations followed *)
MaxKeyed == 2

CacheKeyInit ==
    /\ AppInit
    /\ cache = EmptyCache
    /\ calls = <<>>
    /\ netlog = <<>>

(* get_bytes_cached computes the key of its URL (client.rs:40-41) *)
ComputeKey(url) ==
    /\ Len(calls) < MaxKeyed
    /\ calls' = Append(calls, [url |-> url, key |-> url_to_cache_key(url)])
    /\ UNCHANGED <<appvars, ldvars, cache, netlog>>

CacheKeyNext == \E url \in KeyedUrls : ComputeKey(url)

CacheKeySpec == CacheKeyInit /\ [][CacheKeyNext]_vars

(* The URL without its scheme prefix *)
StripScheme(url) ==
    IF Len(url) >= Len(HttpsScheme) /\ SubSeq(url, 1, Len(HttpsScheme)) = HttpsScheme
    THEN SubSeq(url, Len(HttpsScheme) + 1, Len(url))
    ELSE IF Len(url) >= Len(HttpScheme) /\ SubSeq(url, 1, Len(HttpScheme)) = HttpScheme
    THEN SubSeq(url, Len(HttpScheme) + 1, Len(url))
    ELSE url

(* C30: the cache key of a URL is the URL without its scheme prefix and with
   every '/' and '?' replaced by '_', and two distinct URLs the accessors
   build have distinct keys. *)
C30_CacheKeyOfUrl ==
    /\ \A i \in 1..Len(calls) :
           calls[i].key = ReplaceChars(StripScheme(calls[i].url), {"/", "?"}, "_")
    /\ \A i, j \in 1..Len(calls) :
           (calls[i].url \in AccessorUrls /\ calls[j].url \in AccessorUrls
               /\ calls[i].url # calls[j].url) => calls[i].key # calls[j].key

(* The same for the URLs that hold no scheme but their prefix *)
PlainUrlKeys ==
    /\ \A i \in 1..Len(calls) :
           calls[i].url # ProxiedSpriteUrl(1) =>
               calls[i].key =
                   ReplaceChars(StripScheme(calls[i].url), {"/", "?"}, "_")
    /\ \A i, j \in 1..Len(calls) :
           (calls[i].url \in AccessorUrls /\ calls[j].url \in AccessorUrls
               /\ calls[i].url # calls[j].url) => calls[i].key # calls[j].key


----------------------------------------------------------------------------
(* Claims about the state the handlers keep (KeySpec) *)

(* The ids a detail is requested for: those of the catalog *)
RequestIds == {Catalog[j] : j \in 1..Len(Catalog)}

(* C31: a detail request for the id that is tracked while a detail is stored
   changes nothing and starts no loader; any other detail request clears the
   stored detail and sprite, tracks the id, sets the detail status to Loading
   and starts exactly one loader, in one step. *)
C31_DetailRequest ==
    \A id \in RequestIds :
        LET w == World(TRUE)
            after == load_detail(w, id)
        IN  IF app.detail_pokemon_id = Some(id) /\ IsSome(app.detail)
            THEN after = w
            ELSE /\ after.app.detail = None
                 /\ after.app.sprite_bytes = None
                 /\ after.app.detail_pokemon_id = Some(id)
                 /\ after.app.detail_loading = "Loading"
                 /\ after.spawned = <<DetailTask(id)>>
                 /\ after.saved = saved

(* Right on the detail screen has replaced a stored detail by the request of
   the next entity, whose loader is running *)
C31_Witness ==
    /\ app.screen = "PokemonDetail"
    /\ nkeys = 1 /\ chan = <<>>
    /\ app.detail = None /\ app.sprite_bytes = None
    /\ app.detail_loading = "Loading"
    /\ app.detail_pokemon_id = Some(Catalog[2])
    /\ tasks = <<DetailTask(Catalog[2])>>


----------------------------------------------------------------------------
(* The application under fair scheduling (LiveSpec): every network call
   returns, every loader that can send does, and the event loop keeps
   taking events while the application runs *)

(* Key events typed in one fair run *)
MaxPressed == 1

(* The states a fair run starts in: start-up with the catalog loader in
   flight, or the state one of these event sequences has left *)
LiveScenarios ==
    {CatalogLoaded,
     DetailOpened,
     DetailOpened \o Keys(<<KeyChar("4")>>),
     CatalogLoaded \o Keys(<<KeyCode("Tab")>>)
         \o DetailRun(Catalog[1], FALSE, FALSE)}

LiveInit ==
    /\ \E file \in InitSaved :
           \/ /\ app = StartUp(file).app
              /\ saved = file
              /\ tasks = StartUp(file).spawned
           \/ \E events \in LiveScenarios :
                  /\ app = Replay(StartUp(file), events).app
                  /\ saved = Replay(StartUp(file), events).saved
                  /\ tasks = <<>>
    /\ chan = <<>>
    /\ mainpc = "run"
    /\ nkeys = 0
    /\ lastev = None
    /\ LoaderIdle
    /\ cache = EmptyCache
    /\ GatewayIdle

(* The keys that lead to a loader, and the one that ends the run *)
LoadKeys == {KeyCode("Tab"), KeyCode("Enter"), KeyChar("q")}

(* The input thread sends a key once the loop has taken the events before
   it and a loader the key may start has a free task slot: in a fair run
   the loop is never kept from taking the key *)
Press(key) ==
    /\ nkeys < MaxPressed
    /\ Len(tasks) < MaxTasks
    /\ chan = <<>>
    /\ Input(key)

(* A step of a loader task: a fetch returns or an event is sent *)
LoaderStep ==
    \/ \E i \in TaskSlots : Send(i)
    \/ \E i \in TaskSlots, ok \in BOOLEAN : FetchList(i, ok)
    \/ \E i \in TaskSlots, ok \in SUBSET (1..ChunkSize) : FetchBatch(i, ok)
    \/ \E i \in TaskSlots, ok \in BOOLEAN, sprite_ok \in BOOLEAN :
           FetchDetail(i, ok, sprite_ok)
    \/ \E i \in TaskSlots, outcomes \in TypeOutcomes : FetchTypes(i, outcomes)
    \/ \E i \in TaskSlots, ok \in SUBSET MoveSlots : FetchMoves(i, ok)

LiveNext ==
    \/ \E key \in LoadKeys : Press(key)
    \/ Receive
    \/ LoaderStep

LiveSpec ==
    /\ LiveInit
    /\ [][LiveNext]_vars
    /\ WF_vars(Receive)
    /\ WF_vars(LoaderStep)

(* The status of a resource group leaves Loading, or the application stops *)
Settles(group) ==
    (app[group] = "Loading") ~> (app[group] \in {"Loaded", "Error"} \/ ~app.running)

(* C32: when every network call returns and the event loop keeps receiving,
   no resource group stays Loading forever: a status that is Loading
   eventually is Loaded or Error. *)
C32_LoadingSettles ==
    /\ Settles("list_loading")
    /\ Settles("detail_loading")
    /\ Settles("type_chart_loading")
    /\ Settles("moves_loading")

(* The type table a key has requested has been loaded and its loader has
   ended *)
C32_Witness ==
    /\ nkeys = 1
    /\ app.type_chart_loading = "Loaded"
    /\ tasks = <<>>
    /\ chan = <<>>


----------------------------------------------------------------------------
(* Claims about the catalog, the pickers and the cursors *)

(* The tags the catalog holds for the entity, <<>> when it has no entry *)
TagsOf(list, id) ==
    LET at == {k \in 1..Len(list) : list[k].id = id}
    IN  IF at = {} THEN <<>> ELSE list[CHOOSE k \in at : TRUE].types

(* The catalog has an entry for the entity *)
Listed(list, id) == \E k \in 1..Len(list) : list[k].id = id

(* C33: once the tags of a catalog entry are filled, no later event leaves
   the entry of that entity with empty tags. *)
C33_TagsStayFilled ==
    [][\A id \in RequestIds :
           (TagsOf(app.pokemon_list, id) # <<>> /\ Listed(app'.pokemon_list, id))
               => TagsOf(app'.pokemon_list, id) # <<>>]_vars


(* The move tables a move loader started for the entity's detail can send:
   one for every way its fetches can end *)
MoveTablesOf(id) ==
    {MovesRun(Take(MovesOf(id), MaxMovesLoaded), ok)[1].arg : ok \in SUBSET MoveSlots}

(* C34: while the move picker is open for the member in the selected slot,
   the available move list is empty or is a list a move loader started for
   that member's entity has produced. *)
C34_PickerShowsMembersMoves ==
    (app.modal = Some("MovePicker")
        /\ app.team_slot_selected < Len(current_team(app).members)) =>
        \/ app.available_moves = <<>>
        \/ app.available_moves \in
               MoveTablesOf(current_team(app).members[app.team_slot_selected + 1].pokemon_id)


(* C35: search mode is on only while the list screen is shown without a
   modal or while the entity picker is open. *)
C35_SearchModeScope ==
    app.search_mode =>
        \/ app.screen = "PokemonList" /\ app.modal = None
        \/ app.modal = Some("PokemonPicker")


(* C36: whenever detail_list_index is Some(i), position i of the current
   filtered list exists and holds the entity whose id is tracked. *)
C36_IndexIsTrackedEntity ==
    IsSome(app.detail_list_index) =>
        LET i == Unwrap(app.detail_list_index)
            list == filtered_list(app)
        IN  /\ i < Len(list)
            /\ Some(list[i + 1].id) = app.detail_pokemon_id

(* C37: when the filtered list is non-empty the list cursor is a valid
   index into it, and when it is empty the cursor is 0. *)
C37_CursorInList ==
    IF filtered_list(app) = <<>>
    THEN app.list_state = 0
    ELSE app.list_state < Len(filtered_list(app))

(* On the list screen, with the cursor on the second entry, the generation
   filter 2 has left one entry and the cursor is back on the first *)
C37_Witness ==
    /\ app.screen = "PokemonList"
    /\ chan = <<>> /\ nkeys = MaxTyped
    /\ app.detail_list_index = Some(1)
    /\ app.generation_filter = Some(2)
    /\ Len(filtered_list(app)) = 1
    /\ app.list_state = 0


(* C38: the current-team index is a valid index into the team list and the
   selected slot stays within 0..5. *)
C38_TeamCursorsInRange ==
    /\ app.current_team < Len(app.team_data.teams)
    /\ app.team_slot_selected \in 0..LastTeamSlot

(* On the team screen with two teams, keys have been handled and the last
   team is the current one *)
C38_Witness ==
    /\ app.screen = "TeamBuilder" /\ app.modal = None
    /\ nkeys = MaxTyped /\ chan = <<>>
    /\ Len(app.team_data.teams) = MaxTeams
    /\ app.current_team = MaxTeams - 1


(* The key at the head of the channel is Enter in a Pokemon picker outside
   search mode, and handling it adds a member to the current team *)
PicksPokemon ==
    /\ app.modal = Some("PokemonPicker")
    /\ IsCode(Head(chan).arg, "Enter")
    /\ ~app.search_mode
    /\ Len(current_team(app').members) = Len(current_team(app).members) + 1

(* The key at the head of the channel is Enter in a move picker, and handling
   it adds the 4th move of the member in the selected slot *)
AddsLastMove ==
    LET slot == app.team_slot_selected
        before == current_team(app).members
        after == current_team(app').members
    IN  /\ app.modal = Some("MovePicker")
        /\ IsCode(Head(chan).arg, "Enter")
        /\ slot < Len(before) /\ slot < Len(after)
        /\ Len(before[slot + 1].moves) = MaxMemberMoves - 1
        /\ Len(after[slot + 1].moves) = MaxMemberMoves

(* C39: while a modal is open and no banner is shown, no key event changes
   the screen or clears the running flag; an open modal closes only in a
   step that handles a key while no banner is shown, and the key is Esc, or
   a Pokemon pick that succeeds, or the Enter that adds a member's 4th
   move. *)
C39_ModalKeepsKeys ==
    /\ [][(/\ Consumes("Key")
           /\ IsSome(app.modal)
           /\ app.error_message = None) =>
              /\ app'.screen = app.screen
              /\ app'.running]_vars
    /\ [][(IsSome(app.modal) /\ app'.modal = None) =>
              /\ Consumes("Key")
              /\ app.error_message = None
              /\ \/ IsCode(Head(chan).arg, "Esc")
                 \/ PicksPokemon
                 \/ AddsLastMove]_vars

(* One key has been handled, the Enter of a Pokemon picker opened on the
   second slot of a team of one: the picker is closed and the team holds the
   first catalog entry twice *)
C39_Witness ==
    /\ nkeys = 1 /\ chan = <<>>
    /\ app.screen = "TeamBuilder"
    /\ app.modal = None
    /\ app.team_slot_selected = 1
    /\ Len(current_team(app).members) = 2
    /\ \A i \in 1..2 : current_team(app).members[i].pokemon_id = Catalog[1]

====
